---- MODULE Spec2Model ----
(***************************************************************************)
(* Model of the PLC secure-coding checker (backend/src): the unified AST   *)
(* (ast.rs), the shared helpers (rules/utils.rs) and the rule passes       *)
(* rule1, rule4, rule6, rule7, rule8, rule9, rule10, rule11_12, rule15 and *)
(* rule18, the policy parser (rules/policy.rs), the entry point            *)
(* check_plc_code (lib.rs) and the two front ends parser/il.rs and         *)
(* parser/scl.rs.  Every rule is a pure traversal                          *)
(* of a Program; it is modelled by recursive operators that compute what   *)
(* the Rust functions compute, and by one action per rule that applies the *)
(* rule to the program under analysis and stores the outcome.              *)
(*                                                                         *)
(* Strings are TLA+ strings; to_ascii_uppercase, contains, ends_with,      *)
(* replace(' ', "") and format! are computed character by character.       *)
(***************************************************************************)
EXTENDS Integers, Sequences, FiniteSets, TLC

VARIABLES
    program,        \* the Program under analysis: a sequence of Functions
    policy,         \* the Policy handed to the policy-driven rules
    COMMENT_INDEX,  \* utils.rs static COMMENT_INDEX (OnceLock)
    GUARD_MAP,      \* utils.rs static GUARD_MAP (OnceLock)
    installs,       \* the arguments of the set_comment_index / set_guard_map
                    \* calls made so far in this process, oldest first
    query,          \* None, or Some(the last query of the two indices and
                    \* what the helpers answered)
    rerun,          \* rule number -> None, or Some(the RuleResult the rule
                    \* returned when it was invoked a second time)
    source,         \* None, or Some(the arguments of check_plc_code), or
                    \* Some(the lines of the text given to parse_scl_from_str)
    output,         \* None, or Some(what check_plc_code returned and did), or
                    \* Some(what parse_scl_from_str returned)
    calls,          \* None, or a recursive function followed step by step,
                    \* with its call stack, outermost call first: one of
                    \* rule 1's walks over a function body, or the IL parser
                    \* over the lines of a text
    results,        \* rule number -> None, or Some(the RuleResult the rule returned)
    observed        \* rule number -> None, or Some(per function, the value of the
                    \* rule's locals when its pass over that function ended:
                    \* the taint set of rules 6 and 8, the complexity and the
                    \* statement count of rule 1)

vars == <<program, policy, COMMENT_INDEX, GUARD_MAP, installs, query, rerun,
          source, output, calls, results, observed>>

\* the state outside a single pass of the rules over the program
others == <<GUARD_MAP, installs, query, rerun, source, output, calls>>

\* Option<T>: None, or Some(x) with the value at [1]
None == <<>>
Some(x) == <<x>>

(***************************************************************************)
(* String helpers (std::string)                                            *)
(***************************************************************************)
LowerAlpha == "abcdefghijklmnopqrstuvwxyz"
UpperAlpha == "ABCDEFGHIJKLMNOPQRSTUVWXYZ"

CharAt(s, i) == SubSeq(s, i, i)

\* the ASCII lower-case letters and their upper-case forms
UpperOf ==
    [c \in {CharAt(LowerAlpha, j) : j \in 1..Len(LowerAlpha)} |->
        CharAt(UpperAlpha, CHOOSE j \in 1..Len(LowerAlpha) : CharAt(LowerAlpha, j) = c)]

UpperChar(c) == IF c \in DOMAIN UpperOf THEN UpperOf[c] ELSE c

RECURSIVE to_ascii_uppercase(_)
to_ascii_uppercase(s) ==
    IF Len(s) = 0 THEN ""
    ELSE UpperChar(CharAt(s, 1)) \o to_ascii_uppercase(SubSeq(s, 2, Len(s)))

\* s.contains(t)
Contains(s, t) ==
    \E i \in 1..(Len(s) - Len(t) + 1) : SubSeq(s, i, i + Len(t) - 1) = t

\* s.ends_with(t)
EndsWith(s, t) ==
    Len(s) >= Len(t) /\ SubSeq(s, Len(s) - Len(t) + 1, Len(s)) = t

\* s.replace(' ', "")
RECURSIVE RemoveSpaces(_)
RemoveSpaces(s) ==
    IF Len(s) = 0 THEN ""
    ELSE (IF CharAt(s, 1) = " " THEN "" ELSE CharAt(s, 1))
         \o RemoveSpaces(SubSeq(s, 2, Len(s)))

Digits == "0123456789"

\* n.to_string() for an i64
RECURSIVE NatToString(_)
NatToString(n) ==
    IF n < 10 THEN CharAt(Digits, n + 1)
    ELSE NatToString(n \div 10) \o CharAt(Digits, (n % 10) + 1)

IntToString(n) == IF n < 0 THEN "-" \o NatToString(0 - n) ELSE NatToString(n)

(***************************************************************************)
(* AST (ast.rs)                                                            *)
(***************************************************************************)
NumberLiteral(n)      == [k |-> "NumberLiteral", n |-> n]
BoolLiteral(b)        == [k |-> "BoolLiteral", b |-> b]
VariableRef(name)     == [k |-> "VariableRef", name |-> name]
UnaryNot(e)           == [k |-> "UnaryOp", op |-> "Not", expr |-> e]
BinaryOp(op, l, r)    == [k |-> "BinaryOp", op |-> op, left |-> l, right |-> r]
Index(b, i)           == [k |-> "Index", base |-> b, index |-> i]
FuncCall(name, args, line) ==
    [k |-> "FuncCall", name |-> name, args |-> args, line |-> line]

Assign(target, value, line) ==
    [k |-> "Assign", target |-> target, value |-> value, line |-> line]
Call(name, args, line) ==
    [k |-> "Call", name |-> name, args |-> args, line |-> line]
IfStmt(condition, then_branch, else_branch, line) ==
    [k |-> "IfStmt", condition |-> condition, then_branch |-> then_branch,
     else_branch |-> else_branch, line |-> line]
ExprStmt(expr, line) == [k |-> "Expr", expr |-> expr, line |-> line]
Comment(text, line)  == [k |-> "Comment", text |-> text, line |-> line]
CaseStmt(expression, cases, else_branch, line) ==
    [k |-> "CaseStmt", expression |-> expression, cases |-> cases,
     else_branch |-> else_branch, line |-> line]
CaseArm(labels, body) == [labels |-> labels, body |-> body]

Function(name, kind, statements, line) ==
    [name |-> name, kind |-> kind, statements |-> statements, line |-> line]

(***************************************************************************)
(* rules/utils.rs                                                          *)
(***************************************************************************)
is_sensitive_variable(name) ==
    LET upper == to_ascii_uppercase(name)
    IN  Contains(upper, "HMI") \/ Contains(upper, "RECIPE") \/ Contains(upper, ".PAR.")

BinOpText(op) ==
    CASE op = "Add" -> "+"  [] op = "Sub" -> "-"  [] op = "Mul" -> "*"
      [] op = "Div" -> "/"  [] op = "Eq"  -> "="  [] op = "Neq" -> "<>"
      [] op = "Lt"  -> "<"  [] op = "Le"  -> "<=" [] op = "Gt"  -> ">"
      [] op = "Ge"  -> ">=" [] op = "And" -> "AND" [] op = "Or" -> "OR"

RECURSIVE expr_text(_)
RECURSIVE JoinArgs(_)
\* args.iter().map(expr_text).collect::<Vec<_>>().join(", ")
JoinArgs(args) ==
    IF Len(args) = 0 THEN ""
    ELSE IF Len(args) = 1 THEN expr_text(args[1])
    ELSE expr_text(args[1]) \o ", " \o JoinArgs(Tail(args))

expr_text(e) ==
    CASE e.k = "NumberLiteral" -> IntToString(e.n)
      [] e.k = "BoolLiteral"   -> (IF e.b THEN "true" ELSE "false")
      [] e.k = "VariableRef"   -> e.name
      [] e.k = "Index"         -> expr_text(e.base) \o "[" \o expr_text(e.index) \o "]"
      [] e.k = "UnaryOp"       -> "NOT " \o expr_text(e.expr)
      [] e.k = "BinaryOp"      ->
            "(" \o expr_text(e.left) \o " " \o BinOpText(e.op) \o " "
                \o expr_text(e.right) \o ")"
      [] e.k = "FuncCall"      -> e.name \o "(" \o JoinArgs(e.args) \o ")"

TAGS == {"@PlausibilityCheck", "@Validated"}

\* the same with a comment on the line itself counted as above it
has_plausibility_annotation_above_or_on(line, max_gap) ==
    IF COMMENT_INDEX # None
    THEN LET comments == COMMENT_INDEX[1]
         IN  \E i \in 1..Len(comments) :
                /\ comments[i][1] <= line
                /\ line - comments[i][1] <= max_gap
                /\ \E t \in TAGS : Contains(comments[i][2], t)
    ELSE FALSE

\* COMMENT_INDEX.get() is None until an index was installed
has_plausibility_annotation_above(line, max_gap) ==
    IF COMMENT_INDEX # None
    THEN LET comments == COMMENT_INDEX[1]
         IN  \E i \in 1..Len(comments) :
                /\ comments[i][1] < line
                /\ line - comments[i][1] <= max_gap
                /\ \E t \in TAGS : Contains(comments[i][2], t)
    ELSE FALSE

\* GUARD_MAP.get() is None until a map was installed; a map is a function
\* from the lines it has an entry for to the guard text
current_guard_text(line) ==
    IF GUARD_MAP # None /\ line \in DOMAIN GUARD_MAP[1]
    THEN GUARD_MAP[1][line]
    ELSE ""

\* OnceLock::set: the value is stored only while the cell is empty, and the
\* Err returned otherwise is dropped (let _ = ...)
OnceLockSet(cell, value) == IF cell = None THEN Some(value) ELSE cell

\* RuleResult lives in rules/mod.rs; only the constructor used and the
\* violation list handed to it are recorded.
RuleResult_ok(rule_no, rule_name) ==
    [ctor |-> "ok", rule_no |-> rule_no, rule_name |-> rule_name, violations |-> <<>>]
RuleResult_violations(violations) ==
    [ctor |-> "violations", violations |-> violations]

Violation(rule_no, rule_name, line, reason, suggestion) ==
    [rule_no |-> rule_no, rule_name |-> rule_name, line |-> line,
     reason |-> reason, suggestion |-> suggestion]

\* collect_vars (rule6.rs and rule8.rs carry the same function)
RECURSIVE collect_vars(_)
collect_vars(e) ==
    CASE e.k = "VariableRef" -> {to_ascii_uppercase(e.name)}
      [] e.k = "BinaryOp"    -> collect_vars(e.left) \cup collect_vars(e.right)
      [] e.k = "Index"       -> collect_vars(e.base) \cup collect_vars(e.index)
      [] e.k = "FuncCall"    -> UNION {collect_vars(e.args[i]) : i \in 1..Len(e.args)}
      [] OTHER               -> {}

(***************************************************************************)
(* rules/rule8.rs : untrusted input into actuator                          *)
(***************************************************************************)
is_source8(e) ==
    \E v \in collect_vars(e) :
        LET up == to_ascii_uppercase(v)
        IN  Contains(up, "HMI") \/ Contains(up, "RECIPE") \/ Contains(up, ".PAR.")

is_assignment_a_sink_case_sensitive(target_name) ==
    Contains(target_name, "MOTOR") \/ Contains(target_name, "SPEED")
    \/ Contains(target_name, "POSITION")

is_assignment_a_sink(target_name) ==
    LET up == to_ascii_uppercase(target_name)
    IN  Contains(up, "MOTOR") \/ Contains(up, "SPEED") \/ Contains(up, "POSITION")

is_call_arg_a_sink(call_name, arg_name) ==
    LET call_up == to_ascii_uppercase(call_name)
        arg_up  == to_ascii_uppercase(arg_name)
    IN  (EndsWith(call_up, "TP") \/ EndsWith(call_up, "TON")) /\ arg_up = "PT"

RECURSIVE is_sanitizer_for(_, _)
is_sanitizer_for(condition, var_name_upper) ==
    IF condition.k = "BinaryOp"
    THEN LET left  == condition.left
             right == condition.right
             left_is_var  == left.k = "VariableRef"
                             /\ to_ascii_uppercase(left.name) = var_name_upper
             right_is_var == right.k = "VariableRef"
                             /\ to_ascii_uppercase(right.name) = var_name_upper
             left_is_lit  == left.k = "NumberLiteral"
             right_is_lit == right.k = "NumberLiteral"
         IN  CASE condition.op \in {"Lt", "Le", "Gt", "Ge", "Eq", "Neq"} ->
                    (left_is_var /\ right_is_lit) \/ (right_is_var /\ left_is_lit)
               [] condition.op \in {"And", "Or"} ->
                    is_sanitizer_for(left, var_name_upper)
                    \/ is_sanitizer_for(right, var_name_upper)
               [] OTHER -> FALSE
    ELSE FALSE

Rule8AssignReason_uppercased(target_name) ==
    "Untrusted data flows into sensitive variable '"
        \o to_ascii_uppercase(target_name) \o "'"

\* format!("Untrusted data flows into sensitive variable '{}'", target.name)
Rule8AssignReason(target_name) ==
    "Untrusted data flows into sensitive variable '" \o target_name \o "'"

\* the Assign arm: taint bookkeeping, then the sink test
Rule8Assign(st, tainted_vars, violations) ==
    LET value_vars == collect_vars(st.value)
        is_tainted == is_source8(st.value) \/ (value_vars \cap tainted_vars # {})
        target_up  == to_ascii_uppercase(st.target)
    IN  [tainted_vars |-> IF is_tainted THEN tainted_vars \cup {target_up}
                          ELSE tainted_vars \ {target_up},
         violations |->
            IF is_assignment_a_sink(st.target) /\ is_tainted
            THEN Append(violations,
                    Violation(8, "Validate HMI input variables", st.line,
                        Rule8AssignReason(st.target),
                        "Sanitize the source variable with a range-checking IF statement before this assignment."))
            ELSE violations]

\* the Call arm: one test per argument, in order
RECURSIVE Rule8CallArgs(_, _, _, _)
Rule8CallArgs(st, i, tainted_vars, violations) ==
    IF i > Len(st.args) THEN violations
    ELSE LET arg_name   == st.args[i][1]
             arg_value  == st.args[i][2]
             is_tainted == is_source8(arg_value)
                           \/ (collect_vars(arg_value) \cap tainted_vars # {})
         IN  Rule8CallArgs(st, i + 1, tainted_vars,
                IF is_call_arg_a_sink(st.name, arg_name) /\ is_tainted
                THEN Append(violations,
                        Violation(6, "Validate timers and counters", st.line,
                            "Untrusted recipe data from '" \o expr_text(arg_value)
                                \o "' flows into sensitive timer parameter '"
                                \o arg_name \o "'",
                            "Validate recipe parameters against safe operational limits before use."))
                ELSE violations)

\* the variables of the condition that are tainted and compared with a literal
Rule8SanitizedVars(condition, tainted_vars) ==
    {v \in collect_vars(condition) :
        v \in tainted_vars /\ is_sanitizer_for(condition, v)}

\* The taint set of the enclosing scope once an IfStmt was walked: the then
\* branch ran on the clone then_tainted, which is dropped; the else branch ran
\* on the caller's own set.
Rule8IfExit(then_exit, else_exit) == else_exit

RECURSIVE find_taint_violations(_, _, _)
RECURSIVE Rule8Stmt(_, _, _)
Rule8Stmt(st, tainted_vars, violations) ==
    CASE st.k = "Assign" -> Rule8Assign(st, tainted_vars, violations)
      [] st.k = "IfStmt" ->
            LET sanitized_vars == Rule8SanitizedVars(st.condition, tainted_vars)
                then_tainted   == tainted_vars \ sanitized_vars
                t == find_taint_violations(st.then_branch, then_tainted, violations)
                e == find_taint_violations(st.else_branch, tainted_vars, t.violations)
            IN  [tainted_vars |-> Rule8IfExit(t.tainted_vars, e.tainted_vars),
                 violations   |-> e.violations]
      [] st.k = "Call" ->
            [tainted_vars |-> tainted_vars,
             violations   |-> Rule8CallArgs(st, 1, tainted_vars, violations)]
      [] OTHER -> [tainted_vars |-> tainted_vars, violations |-> violations]

find_taint_violations(stmts, tainted_vars, violations) ==
    IF Len(stmts) = 0
    THEN [tainted_vars |-> tainted_vars, violations |-> violations]
    ELSE LET r == Rule8Stmt(Head(stmts), tainted_vars, violations)
         IN  find_taint_violations(Tail(stmts), r.tainted_vars, r.violations)

\* check: a fresh taint set per function, one violation list for the program
RECURSIVE Rule8Functions(_, _, _)
Rule8Functions(functions, violations, taints) ==
    IF Len(functions) = 0 THEN [violations |-> violations, taints |-> taints]
    ELSE LET r == find_taint_violations(Head(functions).statements, {}, violations)
         IN  Rule8Functions(Tail(functions), r.violations,
                            Append(taints, r.tainted_vars))

rule8_check(prog) == RuleResult_violations(Rule8Functions(prog, <<>>, <<>>).violations)

(***************************************************************************)
(* rules/rule6.rs : unvalidated timer preset                               *)
(***************************************************************************)
is_source6(e) == \E v \in collect_vars(e) : is_sensitive_variable(v)

is_timer_preset_sink(call_name, arg_name) ==
    LET call_up == to_ascii_uppercase(call_name)
        is_timer_call == EndsWith(call_up, "TP") \/ EndsWith(call_up, "TON")
                         \/ EndsWith(call_up, "TOF")
    IN  IF arg_name # None
        THEN is_timer_call /\ to_ascii_uppercase(arg_name[1]) = "PT"
        ELSE is_timer_call \/ Contains(call_up, "PRESET") \/ Contains(call_up, "_PT")

join_guards(parent, child) ==
    IF parent = "" THEN child
    ELSE IF child = "" THEN parent
    ELSE "(" \o parent \o ") AND (" \o child \o ")"

guard_has_range_or_limit(guard) ==
    IF guard = "" THEN FALSE
    ELSE LET g == to_ascii_uppercase(RemoveSpaces(guard))
             has_cmp == Contains(g, "<=") \/ Contains(g, ">=")
                        \/ Contains(g, "<") \/ Contains(g, ">")
             has_keywords == Contains(g, "LIMIT") \/ Contains(g, "BOUND")
                             \/ Contains(g, "MIN") \/ Contains(g, "MAX")
                             \/ Contains(g, "RANGE")
             nonzero == Contains(g, "!=0") \/ Contains(g, "<>0")
         IN  has_cmp \/ has_keywords \/ nonzero

check_timer_sink(call_name, arg_name, arg_value, line, tainted, guard_text, out) ==
    LET arg_is_tainted == is_source6(arg_value)
                          \/ (collect_vars(arg_value) \cap tainted # {})
    IN  IF is_timer_preset_sink(call_name, arg_name) /\ arg_is_tainted
           /\ ~(has_plausibility_annotation_above(line, 3)
                \/ guard_has_range_or_limit(guard_text))
        THEN Append(out,
                Violation(6, "Validate timers and counters", line,
                    "Timer preset comes from unvalidated source '"
                        \o expr_text(arg_value) \o "'",
                    "Add a range/plausibility check (or @PlausibilityCheck) before setting timer PT."))
        ELSE out

RECURSIVE scan_expr_for_sinks(_, _, _, _)
RECURSIVE ScanExprArgs(_, _, _, _, _)
ScanExprArgs(args, i, tainted, guard_text, out) ==
    IF i > Len(args) THEN out
    ELSE ScanExprArgs(args, i + 1, tainted, guard_text,
                      scan_expr_for_sinks(args[i], tainted, guard_text, out))

scan_expr_for_sinks(expr, tainted, guard_text, out) ==
    CASE expr.k = "FuncCall" ->
            LET o1 == IF Len(expr.args) >= 2
                      THEN check_timer_sink(expr.name, None, expr.args[2],
                                            expr.line, tainted, guard_text, out)
                      ELSE out
            IN  ScanExprArgs(expr.args, 1, tainted, guard_text, o1)
      [] expr.k = "BinaryOp" ->
            scan_expr_for_sinks(expr.right, tainted, guard_text,
                scan_expr_for_sinks(expr.left, tainted, guard_text, out))
      [] expr.k = "Index" ->
            scan_expr_for_sinks(expr.index, tainted, guard_text,
                scan_expr_for_sinks(expr.base, tainted, guard_text, out))
      [] OTHER -> out

\* the taint bookkeeping of the Assign arm: insert on a tainted, unsanitized
\* value, remove otherwise
Rule6AssignTaint_sticky(tainted, target_up, rhs_is_tainted, sanitized) ==
    IF rhs_is_tainted /\ ~sanitized THEN tainted \cup {target_up} ELSE tainted

Rule6AssignTaint(tainted, target_up, rhs_is_tainted, sanitized) ==
    IF rhs_is_tainted
    THEN (IF sanitized THEN tainted \ {target_up} ELSE tainted \cup {target_up})
    ELSE tainted \ {target_up}

\* the Assign arm of scan.  The target of an Assign is always a variable
\* reference, so the `if let` on it always matches.
Rule6Assign(st, tainted, guard_text, out) ==
    LET target_name    == st.target
        target_up      == to_ascii_uppercase(target_name)
        rhs_vars       == collect_vars(st.value)
        rhs_is_tainted == is_source6(st.value) \/ (rhs_vars \cap tainted # {})
        annotated      == has_plausibility_annotation_above(st.line, 3)
        guard_validates == guard_has_range_or_limit(guard_text)
    IN  [tainted |->
            Rule6AssignTaint(tainted, target_up, rhs_is_tainted,
                             annotated \/ guard_validates),
         out |->
            IF is_timer_preset_sink(target_name, None) /\ rhs_is_tainted
               /\ ~(annotated \/ guard_validates)
            THEN Append(out,
                    Violation(6, "Validate timers and counters", st.line,
                        "Timer preset '" \o target_name \o "' set from unvalidated source",
                        "Add a range/plausibility check before setting timer presets."))
            ELSE out]

RECURSIVE Rule6CallArgs(_, _, _, _, _)
Rule6CallArgs(st, i, tainted, guard_text, out) ==
    IF i > Len(st.args) THEN out
    ELSE Rule6CallArgs(st, i + 1, tainted, guard_text,
            check_timer_sink(st.name, Some(st.args[i][1]), st.args[i][2], st.line,
                             tainted, guard_text, out))

Rule6IfJoin_intersection(then_taint, else_taint) == then_taint \cap else_taint

\* *tainted = then_taint.union(&else_taint)
Rule6IfJoin(then_taint, else_taint) == then_taint \cup else_taint

\* let mut accum = tainted.clone()
Rule6CaseAccumInit(tainted) == tainted

\* accum = accum.union(&branch_taint)
Rule6CaseAccum(accum, branch_taint) == accum \cup branch_taint

RECURSIVE scan(_, _, _, _)
RECURSIVE Rule6Stmt(_, _, _, _)
RECURSIVE Rule6CaseArms(_, _, _, _, _, _)
\* the loop over the arms of a CaseStmt: every body starts from the pre-Case set
Rule6CaseArms(cases, i, tainted, guard_text, accum, out) ==
    IF i > Len(cases) THEN [accum |-> accum, out |-> out]
    ELSE LET b == scan(cases[i].body, tainted, guard_text, out)
         IN  Rule6CaseArms(cases, i + 1, tainted, guard_text,
                           Rule6CaseAccum(accum, b.tainted), b.out)

Rule6Stmt(st, tainted, guard_text, out) ==
    CASE st.k = "Assign" -> Rule6Assign(st, tainted, guard_text, out)
      [] st.k = "IfStmt" ->
            LET cond_txt  == to_ascii_uppercase(expr_text(st.condition))
                new_guard == join_guards(guard_text, cond_txt)
                t == scan(st.then_branch, tainted, new_guard, out)
                e == scan(st.else_branch, tainted, guard_text, t.out)
            IN  [tainted |-> Rule6IfJoin(t.tainted, e.tainted), out |-> e.out]
      [] st.k = "CaseStmt" ->
            LET a == Rule6CaseArms(st.cases, 1, tainted, guard_text,
                                   Rule6CaseAccumInit(tainted), out)
                e == scan(st.else_branch, tainted, guard_text, a.out)
            IN  [tainted |-> a.accum \cup e.tainted, out |-> e.out]
      [] st.k = "Expr" ->
            [tainted |-> tainted,
             out |-> scan_expr_for_sinks(st.expr, tainted, guard_text, out)]
      [] st.k = "Call" ->
            [tainted |-> tainted,
             out |-> Rule6CallArgs(st, 1, tainted, guard_text, out)]
      [] OTHER -> [tainted |-> tainted, out |-> out]

scan(stmts, tainted, guard_text, out) ==
    IF Len(stmts) = 0 THEN [tainted |-> tainted, out |-> out]
    ELSE LET r == Rule6Stmt(Head(stmts), tainted, guard_text, out)
         IN  scan(Tail(stmts), r.tainted, guard_text, r.out)

RECURSIVE Rule6Functions(_, _, _)
Rule6Functions(functions, violations, taints) ==
    IF Len(functions) = 0 THEN [violations |-> violations, taints |-> taints]
    ELSE LET r == scan(Head(functions).statements, {}, "", violations)
         IN  Rule6Functions(Tail(functions), r.out, Append(taints, r.tainted))

rule6_check(prog) ==
    LET violations == Rule6Functions(prog, <<>>, <<>>).violations
    IN  IF violations = <<>> THEN RuleResult_ok(6, "Validate timers and counters")
        ELSE RuleResult_violations(violations)

(***************************************************************************)
(* rules/rule4.rs : status-word / zero-divisor guard around division       *)
(***************************************************************************)
is_division_guard_either_flag(e) ==
    LET text == to_ascii_uppercase(RemoveSpaces(expr_text(e)))
    IN  (Contains(text, "SW.OV=0") \/ Contains(text, "SW.OS=0"))
        \/ (Contains(text, "<>0") \/ Contains(text, "!=0"))

is_division_guard(e) ==
    LET text == to_ascii_uppercase(RemoveSpaces(expr_text(e)))
        has_sw_check   == Contains(text, "SW.OV=0") /\ Contains(text, "SW.OS=0")
        has_zero_check == Contains(text, "<>0") \/ Contains(text, "!=0")
    IN  has_sw_check \/ has_zero_check

DivOperandsVisited_both(expr) == <<expr.left, expr.right>>

\* "Don't recurse into children of a division; one violation is enough."
DivOperandsVisited(expr) == <<>>

RECURSIVE find_divs(_, _, _, _)
RECURSIVE FindDivsEach(_, _, _, _)
\* find_divs over a list of sub-expressions, left to right
FindDivsEach(exprs, line, guarded, out) ==
    IF Len(exprs) = 0 THEN out
    ELSE FindDivsEach(Tail(exprs), line, guarded,
                      find_divs(Head(exprs), line, guarded, out))

find_divs(expr, line, guarded, out) ==
    CASE expr.k = "BinaryOp" /\ expr.op = "Div" ->
            FindDivsEach(DivOperandsVisited(expr), line, guarded,
                IF ~guarded
                THEN Append(out,
                        Violation(4, "Use PLC flags as integrity checks", line,
                            "Division operation without status-word / zero-divisor guard",
                            "Wrap division inside IF SW.OV=0 AND SW.OS=0 AND divisor<>0 THEN ..."))
                ELSE out)
      [] expr.k = "BinaryOp" /\ expr.op # "Div" ->
            FindDivsEach(<<expr.left, expr.right>>, line, guarded, out)
      [] expr.k = "Index" ->
            FindDivsEach(<<expr.base, expr.index>>, line, guarded, out)
      [] OTHER -> out

RECURSIVE collect_div_violations(_, _, _)
collect_div_violations(stmts, guarded, out) ==
    IF Len(stmts) = 0 THEN out
    ELSE LET st == Head(stmts)
             o  == CASE st.k = "IfStmt" ->
                        collect_div_violations(st.else_branch, guarded,
                            collect_div_violations(st.then_branch,
                                guarded \/ is_division_guard(st.condition), out))
                     [] st.k = "Assign" -> find_divs(st.value, st.line, guarded, out)
                     [] st.k = "Expr"   -> find_divs(st.expr, st.line, guarded, out)
                     [] OTHER -> out
         IN  collect_div_violations(Tail(stmts), guarded, o)

RECURSIVE Rule4Functions(_, _)
Rule4Functions(functions, violations) ==
    IF Len(functions) = 0 THEN violations
    ELSE Rule4Functions(Tail(functions),
            collect_div_violations(Head(functions).statements, FALSE, violations))

rule4_check(prog) == RuleResult_violations(Rule4Functions(prog, <<>>))

(***************************************************************************)
(* rules/rule1.rs : cyclomatic complexity and statement count              *)
(***************************************************************************)
ComplexityLimit == 50
StatementLimit == 500
DepthCap == 100

RECURSIVE count_branches_with_depth(_, _)
RECURSIVE CountArmBranches(_, _, _)
\* for (_, branch) in cases { c += count_branches_with_depth(branch, depth + 1) }
CountArmBranches(cases, i, depth) ==
    IF i > Len(cases) THEN 0
    ELSE count_branches_with_depth(cases[i].body, depth + 1)
         + CountArmBranches(cases, i + 1, depth)

\* what one IfStmt adds to the count
IfBranches(st, depth) ==
    1 + count_branches_with_depth(st.then_branch, depth + 1)
      + (IF st.else_branch # <<>>
         THEN count_branches_with_depth(st.else_branch, depth + 1) ELSE 0)

\* what one CaseStmt adds to the count
CaseBranches(st, depth) ==
    Len(st.cases) + (IF st.else_branch # <<>> THEN 1 ELSE 0)
      + CountArmBranches(st.cases, 1, depth)
      + count_branches_with_depth(st.else_branch, depth + 1)

count_branches_with_depth(stmts, depth) ==
    IF depth > DepthCap THEN 0
    ELSE IF Len(stmts) = 0 THEN 0
    ELSE LET st == Head(stmts)
         IN  (CASE st.k = "IfStmt"   -> IfBranches(st, depth)
                [] st.k = "CaseStmt" -> CaseBranches(st, depth)
                [] OTHER -> 0)
             + count_branches_with_depth(Tail(stmts), depth)

count_branches(stmts) == count_branches_with_depth(stmts, 0)

cyclomatic_complexity(stmts) == 1 + count_branches(stmts)

RECURSIVE statement_count(_)
RECURSIVE CountArmStatements(_, _)
CountArmStatements(cases, i) ==
    IF i > Len(cases) THEN 0
    ELSE statement_count(cases[i].body) + CountArmStatements(cases, i + 1)

statement_count(stmts) ==
    IF Len(stmts) = 0 THEN 0
    ELSE LET st == Head(stmts)
         IN  1 + (CASE st.k = "IfStmt" ->
                        statement_count(st.then_branch) + statement_count(st.else_branch)
                    [] st.k = "CaseStmt" ->
                        CountArmStatements(st.cases, 1) + statement_count(st.else_branch)
                    [] OTHER -> 0)
               + statement_count(Tail(stmts))

ExceedsComplexityLimit_inclusive(complexity) == complexity >= ComplexityLimit

\* if complexity > 50
ExceedsComplexityLimit(complexity) == complexity > ComplexityLimit

\* the violations one function adds
Rule1Function(f, violations) ==
    IF f.kind \in {"FC", "FB", "Program"}
    THEN LET complexity == cyclomatic_complexity(f.statements)
             count      == statement_count(f.statements)
             v1 == IF ExceedsComplexityLimit(complexity)
                   THEN Append(violations,
                           Violation(1, "Modularize PLC Code", f.line,
                               "Cyclomatic complexity " \o IntToString(complexity)
                                   \o " exceeds 50",
                               "Split logic into smaller FC/FBs; reduce branching."))
                   ELSE violations
         IN  IF count > StatementLimit
             THEN Append(v1,
                     Violation(1, "Modularize PLC Code", f.line,
                         "Statement count " \o IntToString(count) \o " exceeds 500",
                         "Refactor large routines into smaller units."))
             ELSE v1
    ELSE violations

\* the locals of check for one function, None when its kind is skipped
Rule1Locals(f) ==
    IF f.kind \in {"FC", "FB", "Program"}
    THEN Some([complexity |-> cyclomatic_complexity(f.statements),
               count |-> statement_count(f.statements)])
    ELSE None

RECURSIVE Rule1Functions(_, _)
Rule1Functions(functions, violations) ==
    IF Len(functions) = 0 THEN violations
    ELSE Rule1Functions(Tail(functions), Rule1Function(Head(functions), violations))

rule1_check(prog) == RuleResult_violations(Rule1Functions(prog, <<>>))

(***************************************************************************)
(* rules/rule7.rs : mutually exclusive outputs                             *)
(***************************************************************************)
is_true_expr_bool_only(e) == e.k = "BoolLiteral" /\ e.b

is_true_expr(e) ==
    CASE e.k = "BoolLiteral"   -> e.b
      [] e.k = "NumberLiteral" -> e.n # 0
      [] OTHER -> FALSE

\* the Assign arm: the active set after the assignment
Rule7Activate(st, a_up, b_up, active_signals) ==
    LET target_up == to_ascii_uppercase(st.target)
        is_true   == is_true_expr(st.value)
    IN  IF target_up = a_up
        THEN (IF is_true THEN active_signals \cup {a_up} ELSE active_signals \ {a_up})
        ELSE IF target_up = b_up
        THEN (IF is_true THEN active_signals \cup {b_up} ELSE active_signals \ {b_up})
        ELSE active_signals

\* a branch that starts with no signal active
Rule7BranchStart_empty(active_signals) == {}

\* active_signals.clone(): the set a branch of an If starts from
Rule7BranchStart(active_signals) == active_signals

RECURSIVE find_concurrent_activations(_, _, _, _)
RECURSIVE Rule7Loop(_, _, _, _, _)
\* the loop body; found is violation_found_in_path
Rule7Loop(stmts, pair, active_signals, violations, found) ==
    IF Len(stmts) = 0 THEN [found |-> found, violations |-> violations]
    ELSE IF found THEN Rule7Loop(Tail(stmts), pair, active_signals, violations, found)
    ELSE LET st   == Head(stmts)
             a_up == to_ascii_uppercase(pair[1])
             b_up == to_ascii_uppercase(pair[2])
         IN  CASE st.k = "Assign" ->
                    LET act == Rule7Activate(st, a_up, b_up, active_signals)
                    IN  IF a_up \in act /\ b_up \in act
                        THEN Rule7Loop(Tail(stmts), pair, act,
                                Append(violations,
                                    Violation(7, "Validate paired inputs/outputs", st.line,
                                        "Signals '" \o pair[1] \o "' and '" \o pair[2]
                                            \o "' may be active concurrently",
                                        "Ensure paired signals are in mutually exclusive conditions (e.g., using IF/ELSE).")),
                                TRUE)
                        ELSE Rule7Loop(Tail(stmts), pair, act, violations, FALSE)
               [] st.k = "IfStmt" ->
                    LET t == find_concurrent_activations(st.then_branch, pair,
                                Rule7BranchStart(active_signals), violations)
                        e == find_concurrent_activations(st.else_branch, pair,
                                Rule7BranchStart(active_signals), t.violations)
                    IN  Rule7Loop(Tail(stmts), pair, active_signals, e.violations,
                                  t.found \/ e.found)
               [] OTHER -> Rule7Loop(Tail(stmts), pair, active_signals, violations, FALSE)

find_concurrent_activations(stmts, pair, active_signals, violations) ==
    Rule7Loop(stmts, pair, active_signals, violations, FALSE)

RECURSIVE Rule7Pairs(_, _, _)
Rule7Pairs(func, pairs, violations) ==
    IF Len(pairs) = 0 THEN violations
    ELSE Rule7Pairs(func, Tail(pairs),
            find_concurrent_activations(func.statements, Head(pairs), {},
                                        violations).violations)

RECURSIVE Rule7Functions(_, _, _)
Rule7Functions(functions, pairs, violations) ==
    IF Len(functions) = 0 THEN violations
    ELSE Rule7Functions(Tail(functions), pairs,
                        Rule7Pairs(Head(functions), pairs, violations))

\* check with an absent pair list replaced by a built-in pair
rule7_check_builtin_pair(prog, pol) ==
    IF pol.pairs = None
    THEN RuleResult_violations(
            Rule7Functions(prog, << <<"Motor_Fwd", "Motor_Rev">> >>, <<>>))
    ELSE IF pol.pairs[1] = <<>> THEN RuleResult_ok(7, "Validate paired inputs/outputs")
    ELSE RuleResult_violations(Rule7Functions(prog, pol.pairs[1], <<>>))

rule7_check(prog, pol) ==
    IF pol.pairs = None THEN RuleResult_ok(7, "Validate paired inputs/outputs")
    ELSE IF pol.pairs[1] = <<>> THEN RuleResult_ok(7, "Validate paired inputs/outputs")
    ELSE RuleResult_violations(Rule7Functions(prog, pol.pairs[1], <<>>))

(***************************************************************************)
(* rules/policy.rs                                                         *)
(***************************************************************************)
\* Policy::default()
DefaultPolicy == [pairs |-> None, memory_areas |-> None, platform |-> None]

(***************************************************************************)
(* The rules as steps of the analysis run                                  *)
(***************************************************************************)
Rules == {1, 4, 6, 7, 8, 9, 10, 11, 12, 15, 18}
NothingRun == [r \in Rules |-> None]

\* no index installed or queried, no second invocation, check_plc_code not
\* entered
OthersIdle ==
    /\ GUARD_MAP = None
    /\ installs = <<>>
    /\ query = None
    /\ rerun = NothingRun
    /\ source = None
    /\ output = None
    /\ calls = None

RunRule6 ==
    /\ results[6] = None
    /\ results' = [results EXCEPT ![6] = Some(rule6_check(program))]
    /\ observed' = [observed EXCEPT
                        ![6] = Some(Rule6Functions(program, <<>>, <<>>).taints)]
    /\ UNCHANGED <<program, policy, COMMENT_INDEX, others>>

RunRule8 ==
    /\ results[8] = None
    /\ results' = [results EXCEPT ![8] = Some(rule8_check(program))]
    /\ observed' = [observed EXCEPT
                        ![8] = Some(Rule8Functions(program, <<>>, <<>>).taints)]
    /\ UNCHANGED <<program, policy, COMMENT_INDEX, others>>

(***************************************************************************)
(* Inputs of the taint rules (rule 6, rule 8): one FC whose body is an     *)
(* optional leading assignment, an optional If or Case, and an optional    *)
(* trailing assignment; every statement sits on its own source line.       *)
(***************************************************************************)
MaxBlockLen == 1    \* statements per branch / arm body
MaxArms == 2        \* arms per CaseStmt

\* a statement template: <<target, value>>
IfAtoms ==
    { <<"X", VariableRef("HMI_Speed")>>, <<"X", NumberLiteral(0)>>,
      <<"Motor_Speed", VariableRef("X")>>,
      <<"Motor_Speed", VariableRef("HMI_Speed")>> }
CaseAtoms == { <<"X", VariableRef("HMI_Speed")>>, <<"X", NumberLiteral(0)>> }
ElseAtoms == CaseAtoms
PrefixBlocks == { <<>>, << <<"X", VariableRef("HMI_Speed")>> >> }
SuffixBlocks ==
    { <<>>, << <<"Motor_Speed", VariableRef("X")>> >>,
      << <<"Motor_Speed", VariableRef("HMI_Speed")>> >>,
      << <<"T_Preset", VariableRef("x")>> >> }

TaintConds ==
    { BinaryOp("Gt", VariableRef("HMI_Speed"), NumberLiteral(0)),
      BinaryOp("Lt", VariableRef("X"), NumberLiteral(100)),
      VariableRef("Run") }

\* all sequences of at most MaxBlockLen templates
Blocks(atoms) == UNION { [1..n -> atoms] : n \in 0..MaxBlockLen }

\* the bodies of a CASE arm: at most one statement
ArmBodies == { <<>> } \cup { <<a>> : a \in CaseAtoms }

\* the statements of a block, the first on line first_line
Place(block, first_line) ==
    [i \in 1..Len(block) |-> Assign(block[i][1], block[i][2], first_line + i - 1)]

FirstLine == 1      \* the source line the body starts on
PrefixLine == FirstLine
CompoundLine == FirstLine + 1
\* IF / CASE on CompoundLine; a branch or arm takes its keyword line and
\* MaxBlockLen statement lines
BranchLine(b) == CompoundLine + 1 + (b - 1) * (MaxBlockLen + 1)
SuffixLine == BranchLine(MaxArms + 2) + 1

TaintIfs ==
    { << IfStmt(c, Place(t, BranchLine(1)), Place(e, BranchLine(2)), CompoundLine) >> :
        c \in TaintConds, t \in Blocks(IfAtoms), e \in Blocks(ElseAtoms) }

TaintCases ==
    UNION { { << CaseStmt(VariableRef("Step"),
                    [a \in 1..n |-> CaseArm(<<NumberLiteral(a)>>,
                                            Place(bodies[a], BranchLine(a)))],
                    Place(e, BranchLine(n + 1)), CompoundLine) >> :
                bodies \in [1..n -> ArmBodies], e \in Blocks(ElseAtoms) } :
            n \in 1..MaxArms }

TaintBodies ==
    { Place(p, PrefixLine) \o c \o Place(s, SuffixLine) :
        p \in PrefixBlocks, c \in {<<>>} \cup TaintIfs \cup TaintCases,
        s \in SuffixBlocks }

TaintPrograms ==
    { << Function("FC1", "FC", body, FirstLine) >> : body \in TaintBodies }

\* the comment index the pipeline installed before the rules run, if any
\* (a validation tag on the line of the IF / CASE keyword)
CommentIndexes == { None, Some(<< <<CompoundLine, "// @Validated">> >>) }

InitTaint ==
    /\ program \in TaintPrograms
    /\ policy = DefaultPolicy
    /\ COMMENT_INDEX \in CommentIndexes
    /\ results = NothingRun
    /\ observed = NothingRun
    /\ OthersIdle

NextTaint == RunRule6 \/ RunRule8

SpecTaint == InitTaint /\ [][NextTaint]_vars

(***************************************************************************)
(* Properties of the taint rules                                           *)
(***************************************************************************)
Ran(r) == results[r] # None
ViolationsOf(r) == results[r][1].violations
ViolationsAt(r, line) ==
    {i \in 1..Len(ViolationsOf(r)) : ViolationsOf(r)[i].line = line}

\* rule 6's taint set once the first i statements of a body were scanned
TaintAfter6(body, i) == scan(SubSeq(body, 1, i), {}, "", <<>>).tainted
\* rule 6's taint set at the exit of each branch of the If at body[i], each
\* scanned from the taint set that holds just before the If
ThenExit6(body, i) ==
    scan(body[i].then_branch, TaintAfter6(body, i - 1),
         join_guards("", to_ascii_uppercase(expr_text(body[i].condition))),
         <<>>).tainted
ElseExit6(body, i) ==
    scan(body[i].else_branch, TaintAfter6(body, i - 1), "", <<>>).tainted

\* the variable names of the analysed programs, upper-cased
TaintNames == {"X", "MOTOR_SPEED", "T_PRESET", "HMI_SPEED", "RUN", "STEP"}

\* C1: in rule 6's scan, a variable is in the taint set after an If exactly
\* when it is in the taint set at the exit of the then-branch or at the exit
\* of the else-branch, each analysed from its own copy of the pre-If set; the
\* set the walk ends with is the set after the last statement.
C1_IfJoinIsUnion ==
    Ran(6) =>
        \A f \in 1..Len(program) :
            LET body == program[f].statements
            IN  /\ observed[6][1][f] = TaintAfter6(body, Len(body))
                /\ \A i \in 1..Len(body) :
                        body[i].k = "IfStmt" =>
                            \A v \in TaintNames :
                                v \in TaintAfter6(body, i)
                                    <=> (v \in ThenExit6(body, i)
                                         \/ v \in ElseExit6(body, i))

\* a walk that ended on an If with X tainted on the then path only, and X in
\* the final taint set
C1_Witness ==
    /\ Ran(6)
    /\ LET body == program[1].statements
       IN  /\ Len(body) > 0
           /\ body[Len(body)].k = "IfStmt"
           /\ "X" \in ThenExit6(body, Len(body))
           /\ "X" \notin ElseExit6(body, Len(body))
           /\ "X" \in observed[6][1][1]

\* rule 8's taint set once the first i statements of a body were walked
TaintAfter8(body, i) ==
    find_taint_violations(SubSeq(body, 1, i), {}, <<>>).tainted_vars
\* rule 8's taint set at the exit of each branch of the If at body[i]
ThenExit8(body, i) ==
    LET pre == TaintAfter8(body, i - 1)
    IN  find_taint_violations(body[i].then_branch,
            pre \ Rule8SanitizedVars(body[i].condition, pre), <<>>).tainted_vars
ElseExit8(body, i) ==
    find_taint_violations(body[i].else_branch, TaintAfter8(body, i - 1),
                          <<>>).tainted_vars

\* the statement is the assignment  target := var
IsAssignOfVar(st, target, var) ==
    st.k = "Assign" /\ st.target = target /\ st.value = VariableRef(var)

\* body[i] is an If on exactly one of whose branches X becomes tainted, and
\* body[i + 1] assigns X to the sink Motor_Speed
OneBranchTaintThenSink(body, i) ==
    /\ i + 1 <= Len(body)
    /\ body[i].k = "IfStmt"
    /\ "X" \notin TaintAfter8(body, i - 1)
    /\ ("X" \in ThenExit8(body, i)) # ("X" \in ElseExit8(body, i))
    /\ IsAssignOfVar(body[i + 1], "Motor_Speed", "X")

\* C2: in rule 8, a variable that becomes tainted on only one branch of an If
\* is tainted after the If: a later assignment of it to a sink target is
\* reported as a violation.
C2_OneBranchTaintReported ==
    Ran(8) =>
        \A f \in 1..Len(program) :
            LET body == program[f].statements
            IN  \A i \in 1..Len(body) :
                    OneBranchTaintThenSink(body, i)
                        => ViolationsAt(8, body[i + 1].line) # {}

\* the half of C2 the code keeps: taint acquired on the else branch
C2_ElseBranchTaintReported ==
    Ran(8) =>
        \A f \in 1..Len(program) :
            LET body == program[f].statements
            IN  \A i \in 1..Len(body) :
                    (OneBranchTaintThenSink(body, i) /\ "X" \in ElseExit8(body, i))
                        => ViolationsAt(8, body[i + 1].line) # {}

\* rule 6's taint set at the exit of arm a of the Case at body[i], and of its
\* else body, each scanned from the pre-Case set with the enclosing guard
ArmExit6(body, i, a) ==
    scan(body[i].cases[a].body, TaintAfter6(body, i - 1), "", <<>>).tainted
CaseElseExit6(body, i) ==
    scan(body[i].else_branch, TaintAfter6(body, i - 1), "", <<>>).tainted

\* C3: in rule 6's scan, the taint set after a Case is the union of the exit
\* taint sets of all arm bodies and of the else body, each analysed from a
\* copy of the pre-Case taint set; a variable tainted before the Case and
\* cleared in every arm and in the else body is not tainted after it.
C3_CaseJoinIsUnionOfExits ==
    Ran(6) =>
        \A f \in 1..Len(program) :
            LET body == program[f].statements
            IN  \A i \in 1..Len(body) :
                    body[i].k = "CaseStmt" =>
                        TaintAfter6(body, i) =
                            UNION {ArmExit6(body, i, a) : a \in 1..Len(body[i].cases)}
                            \cup CaseElseExit6(body, i)

\* the scenario of C4: the body is the single statement
\*   IF HMI_Speed > 0 THEN Motor_Speed := HMI_Speed; END_IF
IsScenarioA(body) ==
    /\ Len(body) = 1
    /\ body[1].k = "IfStmt"
    /\ body[1].condition = BinaryOp("Gt", VariableRef("HMI_Speed"), NumberLiteral(0))
    /\ Len(body[1].then_branch) = 1
    /\ IsAssignOfVar(body[1].then_branch[1], "Motor_Speed", "HMI_Speed")
    /\ body[1].else_branch = <<>>

\* C4: for one FC whose body is IF HMI_Speed > 0 THEN Motor_Speed := HMI_Speed;
\* END_IF, rule 8 reports exactly one violation, on the assignment's line.
C4_ScenarioAOneViolation ==
    (Ran(8) /\ Len(program) = 1 /\ program[1].kind = "FC"
            /\ IsScenarioA(program[1].statements)) =>
        /\ Len(ViolationsOf(8)) = 1
        /\ ViolationsOf(8)[1].rule_no = 8
        /\ ViolationsOf(8)[1].line = program[1].statements[1].then_branch[1].line

C4_Witness ==
    /\ Ran(8) /\ Len(program) = 1 /\ program[1].kind = "FC"
    /\ IsScenarioA(program[1].statements)
    /\ Len(ViolationsOf(8)) = 1

\* body[i] is  IF X < 100 THEN Motor_Speed := X; END_IF  with X not tainted
\* before it
IsCleanGuardedUse(body, i) ==
    /\ body[i].k = "IfStmt"
    /\ body[i].condition = BinaryOp("Lt", VariableRef("X"), NumberLiteral(100))
    /\ Len(body[i].then_branch) = 1
    /\ IsAssignOfVar(body[i].then_branch[1], "Motor_Speed", "X")
    /\ "X" \notin TaintAfter8(body, i - 1)

\* C5: rule 8 reports nothing for IF X < 100 THEN Motor_Speed := X; END_IF when
\* X is neither a sensitive source nor tainted, and reports a violation whose
\* reason contains Motor_Speed for an unguarded Motor_Speed := HMI_Speed.
C5_SanitizerPrecedence ==
    Ran(8) =>
        \A f \in 1..Len(program) :
            LET body == program[f].statements
            IN  \A i \in 1..Len(body) :
                    /\ IsCleanGuardedUse(body, i)
                          => ViolationsAt(8, body[i].then_branch[1].line) = {}
                    /\ IsAssignOfVar(body[i], "Motor_Speed", "HMI_Speed")
                          => \E j \in ViolationsAt(8, body[i].line) :
                                Contains(ViolationsOf(8)[j].reason, "Motor_Speed")

\* both halves in one body: the guarded use of X, then the unguarded
\* assignment from HMI_Speed, which alone is reported
C5_Witness ==
    /\ Ran(8)
    /\ LET body == program[1].statements
       IN  /\ Len(body) = 2
           /\ IsCleanGuardedUse(body, 1)
           /\ IsAssignOfVar(body[2], "Motor_Speed", "HMI_Speed")
           /\ Len(ViolationsOf(8)) = 1
           /\ ViolationsOf(8)[1].line = body[2].line
           /\ Contains(ViolationsOf(8)[1].reason, "Motor_Speed")

(***************************************************************************)
(* Inputs of rule 4: one FC holding an assignment  A := <expr>  at the top *)
(* level or nested in up to MaxDivDepth If statements, in the then or the  *)
(* else branch of each; the other branch is empty or holds  Q := B / C.    *)
(***************************************************************************)
RunRule4 ==
    /\ results[4] = None
    /\ results' = [results EXCEPT ![4] = Some(rule4_check(program))]
    /\ UNCHANGED <<program, policy, COMMENT_INDEX, observed, others>>

MaxDivDepth == 2

Div(l, r) == BinaryOp("Div", l, r)
B_over_C == Div(VariableRef("B"), VariableRef("C"))

DivExprs ==
    { B_over_C,
      Div(B_over_C, VariableRef("D")),
      Div(VariableRef("B"), Div(VariableRef("C"), VariableRef("D"))),
      Div(Index(VariableRef("Arr"), B_over_C), VariableRef("D")),
      BinaryOp("Add", B_over_C, Div(VariableRef("D"), VariableRef("E"))),
      BinaryOp("Add", VariableRef("B"), VariableRef("C")) }

\* IF SW.OV=0 AND SW.OS=0
SwGuard ==
    BinaryOp("And", BinaryOp("Eq", VariableRef("SW.OV"), NumberLiteral(0)),
                    BinaryOp("Eq", VariableRef("SW.OS"), NumberLiteral(0)))
\* IF C <> 0
NonZeroGuard == BinaryOp("Neq", VariableRef("C"), NumberLiteral(0))
\* conditions that guard no division
OnlyOverflowFlag == BinaryOp("Eq", VariableRef("SW.OV"), NumberLiteral(0))
DivConds == {SwGuard, NonZeroGuard, OnlyOverflowFlag, VariableRef("Run")}

DivLevels == [cond : DivConds, in_then : BOOLEAN, sibling : BOOLEAN]
DivPaths == UNION { [1..n -> DivLevels] : n \in 0..MaxDivDepth }

\* source lines: the If of nesting level d, the assignment, the other branch
\* of level d
DivIfLine(d) == d
DivTargetLine == MaxDivDepth + 1
DivSiblingLine(d) == DivTargetLine + (MaxDivDepth + 1 - d)

RECURSIVE Nest(_, _, _)
Nest(path, d, target) ==
    IF d > Len(path) THEN <<target>>
    ELSE LET inner == Nest(path, d + 1, target)
             other == IF path[d].sibling
                      THEN <<Assign("Q", B_over_C, DivSiblingLine(d))>> ELSE <<>>
         IN  << IfStmt(path[d].cond,
                       IF path[d].in_then THEN inner ELSE other,
                       IF path[d].in_then THEN other ELSE inner,
                       DivIfLine(d)) >>

DivPrograms ==
    { << Function("FC1", "FC", Nest(p, 1, Assign("A", e, DivTargetLine)), 1) >> :
        p \in DivPaths, e \in DivExprs }

InitDiv ==
    /\ program \in DivPrograms
    /\ policy = DefaultPolicy
    /\ COMMENT_INDEX = None
    /\ results = NothingRun
    /\ observed = NothingRun
    /\ OthersIdle

NextDiv == RunRule4

SpecDiv == InitDiv /\ [][NextDiv]_vars

(***************************************************************************)
(* Properties of rule 4                                                    *)
(***************************************************************************)
\* the assignments of a statement list, those in If branches included
RECURSIVE AssignsIn(_)
AssignsIn(stmts) ==
    IF Len(stmts) = 0 THEN {}
    ELSE LET st == Head(stmts)
         IN  (CASE st.k = "Assign" -> {st}
                [] st.k = "IfStmt" -> AssignsIn(st.then_branch) \cup AssignsIn(st.else_branch)
                [] OTHER -> {})
             \cup AssignsIn(Tail(stmts))

\* the conditions that are division guards: both status-word flags tested
\* against 0, or a divisor tested against 0
DivisionGuardConds == {SwGuard, NonZeroGuard}

\* some If of stmts, at any depth, has a division-guard condition and holds
\* the statement st in its then-branch
RECURSIVE UnderGuardedThen(_, _)
UnderGuardedThen(stmts, st) ==
    \E i \in 1..Len(stmts) :
        /\ stmts[i].k = "IfStmt"
        /\ \/ /\ st \in AssignsIn(stmts[i].then_branch)
              /\ (stmts[i].condition \in DivisionGuardConds
                  \/ UnderGuardedThen(stmts[i].then_branch, st))
           \/ UnderGuardedThen(stmts[i].else_branch, st)

\* C6: rule 4 reports A := B / C, at the top level or inside If branches,
\* exactly when no enclosing If that holds it in its then-branch has a
\* division-guard condition; below IF SW.OV=0 AND SW.OS=0 THEN it is not
\* reported, at any depth.
C6_DivisionGuard ==
    Ran(4) =>
        \A f \in 1..Len(program) :
            LET body == program[f].statements
            IN  \A st \in AssignsIn(body) :
                    st.value = B_over_C =>
                        (ViolationsAt(4, st.line) # {} <=> ~UnderGuardedThen(body, st))

\* A := B / C two levels below the status-word guard, in the else branch of
\* an inner If, unreported, while Q := B / C in the guard's else branch is
C6_Witness ==
    /\ Ran(4)
    /\ LET body == program[1].statements
       IN  /\ Len(body) = 1 /\ body[1].k = "IfStmt" /\ body[1].condition = SwGuard
           /\ Len(body[1].then_branch) = 1
           /\ body[1].then_branch[1].k = "IfStmt"
           /\ Assign("A", B_over_C, DivTargetLine)
                 \in AssignsIn(body[1].then_branch[1].else_branch)
           /\ ViolationsAt(4, DivTargetLine) = {}
           /\ \E q \in AssignsIn(body[1].else_branch) : ViolationsAt(4, q.line) # {}

\* C7: an assignment whose expression has an unguarded division at its root
\* yields exactly one violation, however many divisions its operands hold.
C7_NoDoubleReport ==
    Ran(4) =>
        \A f \in 1..Len(program) :
            LET body == program[f].statements
            IN  \A st \in AssignsIn(body) :
                    (st.value.k = "BinaryOp" /\ st.value.op = "Div"
                        /\ ~UnderGuardedThen(body, st))
                    => Cardinality(ViolationsAt(4, st.line)) = 1

\* an unguarded  A := B / (C / D)  reported once
C7_Witness ==
    /\ Ran(4)
    /\ \E st \in AssignsIn(program[1].statements) :
            /\ st.value = Div(VariableRef("B"), Div(VariableRef("C"), VariableRef("D")))
            /\ ~UnderGuardedThen(program[1].statements, st)
            /\ Cardinality(ViolationsAt(4, st.line)) = 1

(***************************************************************************)
(* Inputs of rule 1: one function of any kind whose body is either a run   *)
(* of up to MaxIfs If statements without else, or at most MaxShapes        *)
(* statements drawn from a few nested If / Case shapes.                    *)
(***************************************************************************)
RunRule1 ==
    /\ results[1] = None
    /\ results' = [results EXCEPT ![1] = Some(rule1_check(program))]
    /\ observed' = [observed EXCEPT
                        ![1] = Some([f \in 1..Len(program) |-> Rule1Locals(program[f])])]
    /\ UNCHANGED <<program, policy, COMMENT_INDEX, others>>

MaxIfs == 51
MaxShapes == 2

FunctionKinds == {"FC", "FB", "Program", "OB", "OB1", "OB100", "OB82", "OB86", "OB121"}
Rule1Kinds == {"FC", "FB", "Program", "OB", "OB100"}

SetA(line) == Assign("A", NumberLiteral(1), line)
PlainIf(line) == IfStmt(VariableRef("Run"), <<SetA(line)>>, <<>>, line)
IfElse(line) == IfStmt(VariableRef("Run"), <<SetA(line)>>, <<SetA(line)>>, line)

\* n If statements without else, one per line
SequentialIfs(n) == [i \in 1..n |-> PlainIf(i)]

\* statement shapes, all on the given line
Shapes(line) ==
    { SetA(line),
      PlainIf(line),
      IfElse(line),
      IfStmt(VariableRef("Run"), <<IfElse(line)>>, <<>>, line),
      IfStmt(VariableRef("Run"), <<>>, <<PlainIf(line), SetA(line)>>, line),
      CaseStmt(VariableRef("Step"),
               <<CaseArm(<<NumberLiteral(1)>>, <<SetA(line)>>)>>, <<>>, line),
      CaseStmt(VariableRef("Step"),
               <<CaseArm(<<NumberLiteral(1)>>, <<SetA(line)>>),
                 CaseArm(<<NumberLiteral(2), NumberLiteral(3)>>, <<IfElse(line)>>)>>,
               <<PlainIf(line)>>, line) }

ShapeBodies ==
    UNION { { [i \in 1..n |-> pick[i]] : pick \in [1..n -> Shapes(1)] } :
            n \in 0..MaxShapes }

Rule1Bodies == {SequentialIfs(n) : n \in 0..MaxIfs} \cup ShapeBodies

Rule1Programs ==
    { << Function("Block1", kind, body, 1) >> :
        kind \in Rule1Kinds, body \in Rule1Bodies }

InitComplexity ==
    /\ program \in Rule1Programs
    /\ policy = DefaultPolicy
    /\ COMMENT_INDEX = None
    /\ results = NothingRun
    /\ observed = NothingRun
    /\ OthersIdle

NextComplexity == RunRule1

SpecComplexity == InitComplexity /\ [][NextComplexity]_vars

(***************************************************************************)
(* Properties of rule 1                                                    *)
(***************************************************************************)
\* the body is n If statements without else, and nothing else
IsSequentialIfs(body, n) ==
    /\ Len(body) = n
    /\ \A i \in 1..n : body[i].k = "IfStmt" /\ body[i].else_branch = <<>>
                       /\ \A j \in 1..Len(body[i].then_branch) :
                             body[i].then_branch[j].k = "Assign"

FlagsComplexity(f) ==
    \E i \in 1..Len(ViolationsOf(1)) :
        /\ ViolationsOf(1)[i].line = program[f].line
        /\ Contains(ViolationsOf(1)[i].reason, "Cyclomatic complexity")

\* C8 as stated: 50 sequential Ifs without else (complexity 51) are not
\* flagged, 51 (complexity 52) are.
C8_Original ==
    Ran(1) =>
        \A f \in 1..Len(program) :
            program[f].kind \in {"FC", "FB", "Program"} =>
                /\ IsSequentialIfs(program[f].statements, 50) => ~FlagsComplexity(f)
                /\ IsSequentialIfs(program[f].statements, 51) => FlagsComplexity(f)

\* C8 (amended): the limit is on the complexity, which is one more than the
\* number of Ifs: a body of n sequential Ifs without else has complexity
\* n + 1 and is flagged exactly when n + 1 > 50, so 49 Ifs (complexity 50)
\* are not flagged and 50 Ifs (complexity 51) are.
C8_FlaggedFrom50Ifs ==
    Ran(1) =>
        \A f \in 1..Len(program) : \A n \in 0..MaxIfs :
            (program[f].kind \in {"FC", "FB", "Program"}
                /\ IsSequentialIfs(program[f].statements, n)) =>
                /\ observed[1][1][f][1].complexity = n + 1
                /\ FlagsComplexity(f) <=> n >= 50

\* 50 sequential Ifs in an FC, flagged with complexity 51
C8_Witness ==
    /\ Ran(1)
    /\ program[1].kind = "FC"
    /\ IsSequentialIfs(program[1].statements, 50)
    /\ Len(ViolationsOf(1)) = 1
    /\ ViolationsOf(1)[1].reason = "Cyclomatic complexity 51 exceeds 50"

\* the branch count of the claim: one per If plus one more when its else is
\* non-empty, one per Case arm plus one when the Case's else is non-empty,
\* summed over all nested statements
RECURSIVE ClaimedBranches(_)
RECURSIVE ClaimedArmBranches(_, _)
ClaimedArmBranches(cases, i) ==
    IF i > Len(cases) THEN 0
    ELSE ClaimedBranches(cases[i].body) + ClaimedArmBranches(cases, i + 1)

ClaimedBranches(stmts) ==
    IF Len(stmts) = 0 THEN 0
    ELSE LET st == Head(stmts)
         IN  (CASE st.k = "IfStmt" ->
                    1 + (IF st.else_branch # <<>> THEN 1 ELSE 0)
                      + ClaimedBranches(st.then_branch) + ClaimedBranches(st.else_branch)
                [] st.k = "CaseStmt" ->
                    Len(st.cases) + (IF st.else_branch # <<>> THEN 1 ELSE 0)
                      + ClaimedArmBranches(st.cases, 1) + ClaimedBranches(st.else_branch)
                [] OTHER -> 0)
             + ClaimedBranches(Tail(stmts))

\* C9: cyclomatic_complexity of a statement list is 1 plus one per If, plus
\* one more per If with a non-empty else, plus one per Case arm, plus one per
\* Case with a non-empty else, over all nested statements.
C9_ComplexityFormula ==
    Ran(1) =>
        \A f \in 1..Len(program) :
            program[f].kind \in {"FC", "FB", "Program"} =>
                observed[1][1][f][1].complexity
                    = 1 + ClaimedBranches(program[f].statements)

\* what the code computes instead: an If counts one, with or without else
RECURSIVE IfsAndArms(_)
RECURSIVE IfsAndArmsOfArms(_, _)
IfsAndArmsOfArms(cases, i) ==
    IF i > Len(cases) THEN 0
    ELSE IfsAndArms(cases[i].body) + IfsAndArmsOfArms(cases, i + 1)

IfsAndArms(stmts) ==
    IF Len(stmts) = 0 THEN 0
    ELSE LET st == Head(stmts)
         IN  (CASE st.k = "IfStmt" ->
                    1 + IfsAndArms(st.then_branch) + IfsAndArms(st.else_branch)
                [] st.k = "CaseStmt" ->
                    Len(st.cases) + (IF st.else_branch # <<>> THEN 1 ELSE 0)
                      + IfsAndArmsOfArms(st.cases, 1) + IfsAndArms(st.else_branch)
                [] OTHER -> 0)
             + IfsAndArms(Tail(stmts))

C9_ComputedByCode ==
    Ran(1) =>
        \A f \in 1..Len(program) :
            program[f].kind \in {"FC", "FB", "Program"} =>
                observed[1][1][f][1].complexity = 1 + IfsAndArms(program[f].statements)

(***************************************************************************)
(* Inputs of rule 7: the policy pair [Motor_Fwd, Motor_Rev] and one FC     *)
(* whose body is a straight-line run of at most MaxSeqLen assignments of   *)
(* literals, one per line.                                                 *)
(***************************************************************************)
RunRule7 ==
    /\ results[7] = None
    /\ results' = [results EXCEPT ![7] = Some(rule7_check(program, policy))]
    /\ UNCHANGED <<program, policy, COMMENT_INDEX, observed, others>>

MaxSeqLen == 3

PairPolicy ==
    [pairs |-> Some(<< <<"Motor_Fwd", "Motor_Rev">> >>),
     memory_areas |-> None, platform |-> None]

PairTargets == {"Motor_Fwd", "Motor_Rev", "Lamp"}
PairValues ==
    {BoolLiteral(TRUE), BoolLiteral(FALSE), NumberLiteral(1), NumberLiteral(0)}

PairBodies ==
    UNION { { [i \in 1..n |-> Assign(t[i], v[i], i)] :
                t \in [1..n -> PairTargets], v \in [1..n -> PairValues] } :
            n \in 0..MaxSeqLen }

PairPrograms == { << Function("FC1", "FC", body, 1) >> : body \in PairBodies }

InitPairs ==
    /\ program \in PairPrograms
    /\ policy = PairPolicy
    /\ COMMENT_INDEX = None
    /\ results = NothingRun
    /\ observed = NothingRun
    /\ OthersIdle

NextPairs == RunRule7

SpecPairs == InitPairs /\ [][NextPairs]_vars

(***************************************************************************)
(* Properties of rule 7                                                    *)
(***************************************************************************)
\* the true / non-zero literals of the analysed bodies
TrueLiterals == {BoolLiteral(TRUE), NumberLiteral(1)}

\* after the first i assignments of body, the most recent assignment to
\* signal gave it a true / non-zero literal
ActiveAfter(body, i, signal) ==
    \E j \in 1..i :
        /\ body[j].target = signal
        /\ body[j].value \in TrueLiterals
        /\ \A m \in (j + 1)..i : body[m].target # signal

BothActiveAfter(body, i) ==
    ActiveAfter(body, i, "Motor_Fwd") /\ ActiveAfter(body, i, "Motor_Rev")

\* C10: with the pair [Motor_Fwd, Motor_Rev], along a straight-line body the
\* one violation is reported at the first assignment after which both
\* members were most recently assigned a true / non-zero literal, and names
\* both signals; when an assignment of FALSE / 0 always intervenes there is
\* none.  Motor_Fwd := TRUE; Motor_Rev := TRUE; is reported on line 2.
C10_FirstConcurrentActivation ==
    Ran(7) =>
        LET body == program[1].statements
            hits == {i \in 1..Len(body) : BothActiveAfter(body, i)}
        IN  IF hits = {} THEN ViolationsOf(7) = <<>>
            ELSE /\ Len(ViolationsOf(7)) = 1
                 /\ \A i \in hits :
                        (\A m \in hits : i <= m)
                            => ViolationsOf(7)[1].line = body[i].line
                 /\ Contains(ViolationsOf(7)[1].reason, "Motor_Fwd")
                 /\ Contains(ViolationsOf(7)[1].reason, "Motor_Rev")

\* Motor_Fwd := TRUE; Motor_Rev := TRUE; with its one violation on line 2
C10_Witness ==
    /\ Ran(7)
    /\ program[1].statements =
          << Assign("Motor_Fwd", BoolLiteral(TRUE), 1),
             Assign("Motor_Rev", BoolLiteral(TRUE), 2) >>
    /\ Len(ViolationsOf(7)) = 1
    /\ ViolationsOf(7)[1].line = 2
    /\ Contains(ViolationsOf(7)[1].reason, "Motor_Fwd")
    /\ Contains(ViolationsOf(7)[1].reason, "Motor_Rev")

(***************************************************************************)
(* rules/rule15.rs : define a safe restart state                           *)
(***************************************************************************)
\* program.functions.iter().find(|f| f.kind == kind), the last match instead
RECURSIVE FindKind_last(_, _)
FindKind_last(functions, kind) ==
    IF functions = <<>> THEN None
    ELSE IF functions[Len(functions)].kind = kind
         THEN Some(functions[Len(functions)])
         ELSE FindKind_last(SubSeq(functions, 1, Len(functions) - 1), kind)

\* program.functions.iter().find(|f| f.kind == kind)
RECURSIVE FindKind(_, _)
FindKind(functions, kind) ==
    IF functions = <<>> THEN None
    ELSE IF functions[1].kind = kind THEN Some(functions[1])
         ELSE FindKind(SubSeq(functions, 2, Len(functions)), kind)

looks_like_critical_output(name) ==
    LET up == to_ascii_uppercase(name)
    IN  Contains(up, "CRITICAL") \/ Contains(up, "SAFE") \/ EndsWith(up, "_OUT")
        \/ Contains(up, "MOTOR") \/ Contains(up, "OUTPUT")

is_safe_expr(e) ==
    CASE e.k = "BoolLiteral"   -> e.b = FALSE
      [] e.k = "NumberLiteral" -> e.n = 0
      [] OTHER                 -> FALSE

is_unsafe_expr(e) ==
    CASE e.k = "BoolLiteral"   -> e.b = TRUE
      [] e.k = "NumberLiteral" -> e.n # 0
      [] OTHER                 -> FALSE

\* inits: [safe_inits, unsafe_inits], each a sequence of <<line, name>>
RECURSIVE walk_ob100(_, _)
RECURSIVE WalkOb100Arms(_, _, _)
WalkOb100Arms(cases, i, inits) ==
    IF i > Len(cases) THEN inits
    ELSE WalkOb100Arms(cases, i + 1, walk_ob100(cases[i].body, inits))

walk_ob100(stmts, inits) ==
    IF stmts = <<>> THEN inits
    ELSE LET st == stmts[1]
             after ==
                CASE st.k = "Assign" ->
                        IF looks_like_critical_output(st.target)
                        THEN IF is_safe_expr(st.value)
                             THEN [inits EXCEPT !.safe_inits =
                                        Append(@, <<st.line, st.target>>)]
                             ELSE IF is_unsafe_expr(st.value)
                             THEN [inits EXCEPT !.unsafe_inits =
                                        Append(@, <<st.line, st.target>>)]
                             ELSE inits
                        ELSE inits
                  [] st.k = "IfStmt" ->
                        walk_ob100(st.else_branch, walk_ob100(st.then_branch, inits))
                  [] st.k = "CaseStmt" ->
                        walk_ob100(st.else_branch, WalkOb100Arms(st.cases, 1, inits))
                  [] OTHER -> inits
         IN  walk_ob100(SubSeq(stmts, 2, Len(stmts)), after)

Rule15Name == "Define a safe restart state"

\* the violations pushed for the entries of unsafe_inits
Rule15Unsafe(unsafe_inits) ==
    [i \in 1..Len(unsafe_inits) |->
        Violation(15, Rule15Name, unsafe_inits[i][1],
                  "Critical output '" \o unsafe_inits[i][2]
                      \o "' initialized UNSAFELY on restart",
                  "Initialize critical outputs to FALSE/0 in OB100.")]

rule15_check(prog) ==
    LET ob100 == FindKind(prog, "OB100")
    IN  IF ob100 = None
        THEN RuleResult_violations(
                << Violation(15, Rule15Name, 0, "OB100 (Startup OB) not found",
                     "Add OB100 and initialize critical outputs to a safe state.") >>)
        ELSE LET f == ob100[1]
             IN  IF f.statements = <<>>
                 THEN RuleResult_violations(
                        << Violation(15, Rule15Name, f.line, "OB100 exists but is empty",
                             "Initialize critical outputs to FALSE/0 in OB100.") >>)
                 ELSE LET inits == walk_ob100(f.statements,
                                       [safe_inits |-> <<>>, unsafe_inits |-> <<>>])
                      IN  RuleResult_violations(
                            Rule15Unsafe(inits.unsafe_inits)
                            \o (IF inits.safe_inits = <<>>
                                THEN << Violation(15, Rule15Name, f.line,
                                          "OB100 does not initialize any critical output to a safe value",
                                          "Set critical outputs to FALSE/0 in OB100.") >>
                                ELSE <<>>))

RunRule15 ==
    /\ results[15] = None
    /\ results' = [results EXCEPT ![15] = Some(rule15_check(program))]
    /\ UNCHANGED <<program, policy, COMMENT_INDEX, observed, others>>

(***************************************************************************)
(* Inputs of rule 15: up to MaxFunctions blocks, each a startup OB, the    *)
(* cyclic OB or an FC, with an empty body or one assignment.  The parser   *)
(* (parser/scl.rs) pushes one Function per block header, so a kind can     *)
(* occur more than once.                                                   *)
(***************************************************************************)
MaxFunctions == 2

\* the line of the i-th block header; its statements follow it
FunctionLine(i) == FirstLine + (i - 1) * 4

RestartKinds == {"OB100", "OB1", "FC"}
RestartBodies(line) ==
    { <<>>,
      << Assign("Motor_Out", BoolLiteral(FALSE), line + 1) >>,
      << Assign("Motor_Out", BoolLiteral(TRUE), line + 1) >>,
      << Assign("X", NumberLiteral(1), line + 1) >> }

RECURSIVE RestartProgramsOfLen(_)
RestartProgramsOfLen(n) ==
    IF n = 0 THEN { <<>> }
    ELSE { Append(p, Function("Block", kind, body, FunctionLine(n))) :
             p \in RestartProgramsOfLen(n - 1), kind \in RestartKinds,
             body \in RestartBodies(FunctionLine(n)) }

RestartPrograms == UNION { RestartProgramsOfLen(n) : n \in 0..MaxFunctions }

InitRestart ==
    /\ program \in RestartPrograms
    /\ policy = DefaultPolicy
    /\ COMMENT_INDEX = None
    /\ results = NothingRun
    /\ observed = NothingRun
    /\ OthersIdle

NextRestart == RunRule15

SpecRestart == InitRestart /\ [][NextRestart]_vars

\* rule r returned exactly one violation, whose reason contains text
OneViolationSaying(r, text) ==
    /\ Len(ViolationsOf(r)) = 1
    /\ Contains(ViolationsOf(r)[1].reason, text)

OfKind(kind) == {i \in 1..Len(program) : program[i].kind = kind}
\* the first function of the kind, when there is one
FirstOfKind(kind) == CHOOSE i \in OfKind(kind) : \A j \in OfKind(kind) : i <= j

\* C11 as stated: rule 15 reports exactly one violation, containing "exists
\* but is empty", when some function of kind OB100 has an empty body, and
\* exactly one, containing "not found", when no function has kind OB100.
C11_Original ==
    Ran(15) =>
        /\ (\E i \in OfKind("OB100") : program[i].statements = <<>>)
              => OneViolationSaying(15, "exists but is empty")
        /\ OfKind("OB100") = {} => OneViolationSaying(15, "not found")

\* C11: rule 15 reports exactly one violation, containing "exists but is
\* empty", when the first function of kind OB100 has an empty body, and exactly
\* one, containing "not found", when no function has kind OB100.
C11_FirstStartupObEmpty ==
    Ran(15) =>
        /\ (OfKind("OB100") # {} /\ program[FirstOfKind("OB100")].statements = <<>>)
              => OneViolationSaying(15, "exists but is empty")
        /\ OfKind("OB100") = {} => OneViolationSaying(15, "not found")

\* two startup OBs, the first one empty
C11_Witness ==
    /\ Ran(15)
    /\ Cardinality(OfKind("OB100")) = 2
    /\ program[FirstOfKind("OB100")].statements = <<>>
    /\ \E i \in OfKind("OB100") : program[i].statements # <<>>
    /\ OneViolationSaying(15, "exists but is empty")
    /\ ViolationsOf(15)[1].line = program[FirstOfKind("OB100")].line

(***************************************************************************)
(* rules/rule18.rs : log PLC hard stops                                    *)
(***************************************************************************)
RECURSIVE has_diag_action(_)
RECURSIVE HasDiagActionArms(_, _)
HasDiagActionArms(cases, i) ==
    IF i > Len(cases) THEN FALSE
    ELSE has_diag_action(cases[i].body) \/ HasDiagActionArms(cases, i + 1)

has_diag_action(stmts) ==
    IF stmts = <<>> THEN FALSE
    ELSE LET st == stmts[1]
             here ==
                CASE st.k = "Assign" ->
                        LET t == to_ascii_uppercase(st.target)
                            v == to_ascii_uppercase(expr_text(st.value))
                        IN  Contains(t, "ALARM") \/ Contains(t, "DIAG")
                            \/ Contains(t, "FAULT") \/ Contains(v, "LOG")
                  [] st.k = "Call" ->
                        LET n == to_ascii_uppercase(st.name)
                        IN  Contains(n, "ALARM") \/ Contains(n, "DIAG")
                            \/ Contains(n, "LOG")
                  [] st.k = "IfStmt" ->
                        has_diag_action(st.then_branch) \/ has_diag_action(st.else_branch)
                  [] st.k = "CaseStmt" ->
                        HasDiagActionArms(st.cases, 1) \/ has_diag_action(st.else_branch)
                  [] OTHER -> FALSE
         IN  here \/ has_diag_action(SubSeq(stmts, 2, Len(stmts)))

Rule18Name == "Log PLC hard stops"

\* the violations check_ob appends to out
check_ob(prog, kind, name, out) ==
    LET found == FindKind(prog, kind)
    IN  IF found # None
        THEN LET f == found[1]
             IN  IF f.statements = <<>>
                 THEN Append(out, Violation(18, Rule18Name, f.line,
                         name \o " present but empty",
                         "Log/record diagnostics and take safe action in this OB."))
                 ELSE IF ~has_diag_action(f.statements)
                 THEN Append(out, Violation(18, Rule18Name, f.line,
                         name \o " present but no diagnostic/alarm action",
                         "Write a diagnostic/alarm/record action in this OB."))
                 ELSE out
        ELSE Append(out, Violation(18, Rule18Name, 0,
                 name \o " missing or empty",
                 "Implement " \o name \o " to capture and log diagnostics."))

\* the name check hands to check_ob for each kind
HardStopName(kind) ==
    CASE kind = "OB86"  -> "OB86 (Rack Failure)"
      [] kind = "OB121" -> "OB121 (Programming Error)"
      [] kind = "OB82"  -> "OB82 (Diagnostic Interrupt)"

rule18_check(prog) ==
    LET v1 == check_ob(prog, "OB86", HardStopName("OB86"), <<>>)
        v2 == check_ob(prog, "OB121", HardStopName("OB121"), v1)
        v3 == check_ob(prog, "OB82", HardStopName("OB82"), v2)
    IN  RuleResult_violations(v3)

RunRule18 ==
    /\ results[18] = None
    /\ results' = [results EXCEPT ![18] = Some(rule18_check(program))]
    /\ UNCHANGED <<program, policy, COMMENT_INDEX, observed, others>>

(***************************************************************************)
(* Inputs of rule 18: up to MaxFunctions blocks of the three hard-stop OB  *)
(* kinds, with bodies that hold no statement, a plain assignment, or an    *)
(* alarm / diagnostic / fault / log action at the top level or nested.     *)
(***************************************************************************)
HardStopKinds == {"OB86", "OB121", "OB82"}
HardStopBodies(line) ==
    { <<>>,
      << Assign("X", NumberLiteral(1), line + 1) >>,
      << Assign("Alarm_Flag", BoolLiteral(TRUE), line + 1) >>,
      << Assign("Log_Count", NumberLiteral(1), line + 1) >>,
      << Assign("X", VariableRef("LogValue"), line + 1) >>,
      << Call("FAULT_HANDLER", <<>>, line + 1) >>,
      << IfStmt(VariableRef("Run"),
                << Assign("Diag_Code", NumberLiteral(1), line + 2) >>, <<>>,
                line + 1) >>,
      << CaseStmt(VariableRef("Step"),
                  << CaseArm(<<NumberLiteral(1)>>,
                             << Call("LOG_EVENT", <<>>, line + 2) >>) >>,
                  <<>>, line + 1) >> }

RECURSIVE HardStopProgramsOfLen(_)
HardStopProgramsOfLen(n) ==
    IF n = 0 THEN { <<>> }
    ELSE { Append(p, Function("Block", kind, body, FunctionLine(n))) :
             p \in HardStopProgramsOfLen(n - 1), kind \in HardStopKinds,
             body \in HardStopBodies(FunctionLine(n)) }

HardStopPrograms == UNION { HardStopProgramsOfLen(n) : n \in 0..MaxFunctions }

InitHardStops ==
    /\ program \in HardStopPrograms
    /\ policy = DefaultPolicy
    /\ COMMENT_INDEX = None
    /\ results = NothingRun
    /\ observed = NothingRun
    /\ OthersIdle

NextHardStops == RunRule18

SpecHardStops == InitHardStops /\ [][NextHardStops]_vars

\* a name that suggests an alarm / diagnostic / fault / log action
SuggestsDiagAction(name) ==
    LET up == to_ascii_uppercase(name)
    IN  Contains(up, "ALARM") \/ Contains(up, "DIAG")
        \/ Contains(up, "FAULT") \/ Contains(up, "LOG")

\* the statements hold, at any depth, an assignment whose target or a call
\* whose name suggests such an action
RECURSIVE ClaimedDiagAction(_)
RECURSIVE ClaimedDiagActionArms(_, _)
ClaimedDiagActionArms(cases, i) ==
    IF i > Len(cases) THEN FALSE
    ELSE ClaimedDiagAction(cases[i].body) \/ ClaimedDiagActionArms(cases, i + 1)

ClaimedDiagAction(stmts) ==
    IF stmts = <<>> THEN FALSE
    ELSE LET st == stmts[1]
             here ==
                CASE st.k = "Assign"   -> SuggestsDiagAction(st.target)
                  [] st.k = "Call"     -> SuggestsDiagAction(st.name)
                  [] st.k = "IfStmt"   ->
                        ClaimedDiagAction(st.then_branch)
                        \/ ClaimedDiagAction(st.else_branch)
                  [] st.k = "CaseStmt" ->
                        ClaimedDiagActionArms(st.cases, 1)
                        \/ ClaimedDiagAction(st.else_branch)
                  [] OTHER -> FALSE
         IN  here \/ ClaimedDiagAction(SubSeq(stmts, 2, Len(stmts)))

\* the violations rule 18 reported for the kind
HardStopViolations(kind) ==
    {i \in 1..Len(ViolationsOf(18)) :
        Contains(ViolationsOf(18)[i].reason, HardStopName(kind))}

\* C12: rule 18 reports no violation for a kind among OB86, OB121 and OB82
\* exactly when a function of that kind exists (the first one is taken), its
\* body is non-empty and holds, at any depth, an assignment whose target or a
\* call whose name contains ALARM, DIAG, FAULT or LOG; otherwise it reports
\* exactly one violation for that kind, whatever the other kinds are.
C12_DiagActionIff ==
    Ran(18) =>
        \A kind \in HardStopKinds :
            IF /\ OfKind(kind) # {}
               /\ program[FirstOfKind(kind)].statements # <<>>
               /\ ClaimedDiagAction(program[FirstOfKind(kind)].statements)
            THEN HardStopViolations(kind) = {}
            ELSE Cardinality(HardStopViolations(kind)) = 1

\* what the code computes: the same with has_diag_action in the place of
\* the claimed test
C12_ComputedByCode ==
    Ran(18) =>
        \A kind \in HardStopKinds :
            IF /\ OfKind(kind) # {}
               /\ program[FirstOfKind(kind)].statements # <<>>
               /\ has_diag_action(program[FirstOfKind(kind)].statements)
            THEN HardStopViolations(kind) = {}
            ELSE Cardinality(HardStopViolations(kind)) = 1

(***************************************************************************)
(* rules/rule10.rs : assign designated register blocks                     *)
(***************************************************************************)
IsAsciiAlphabetic(c) ==
    Contains(LowerAlpha, c) \/ Contains(UpperAlpha, c)
IsAsciiDigit(c) == Contains(Digits, c)

\* the ASCII upper-case letters and their lower-case forms
LowerOf ==
    [c \in {CharAt(UpperAlpha, j) : j \in 1..Len(UpperAlpha)} |->
        CharAt(LowerAlpha, CHOOSE j \in 1..Len(UpperAlpha) : CharAt(UpperAlpha, j) = c)]

RECURSIVE to_ascii_lowercase(_)
to_ascii_lowercase(s) ==
    IF Len(s) = 0 THEN ""
    ELSE (IF CharAt(s, 1) \in DOMAIN LowerOf THEN LowerOf[CharAt(s, 1)]
          ELSE CharAt(s, 1))
         \o to_ascii_lowercase(SubSeq(s, 2, Len(s)))

\* s.starts_with(t)
StartsWith(s, t) == Len(s) >= Len(t) /\ SubSeq(s, 1, Len(t)) = t

\* the value of a decimal digit
DigitValue(c) == (CHOOSE j \in 1..Len(Digits) : CharAt(Digits, j) = c) - 1

\* str::parse::<i64>() on a string of digits: Err on the empty string
\* (the strings met here stay far below the 19 digits of i64::MAX)
RECURSIVE DigitsValue(_)
DigitsValue(s) ==
    IF Len(s) = 0 THEN 0
    ELSE 10 * DigitsValue(SubSeq(s, 1, Len(s) - 1)) + DigitValue(CharAt(s, Len(s)))
ParseI64(s) == IF Len(s) = 0 THEN None ELSE Some(DigitsValue(s))

\* the loop of parse_mem_address over s.chars().skip(1), from position i:
\* [area, num] when the loop ends or breaks
RECURSIVE ParseMemLoop(_, _, _, _, _)
ParseMemLoop(s, i, area, num, seen_digit) ==
    IF i > Len(s) THEN [area |-> area, num |-> num]
    ELSE LET ch == CharAt(s, i)
         IN  IF IsAsciiAlphabetic(ch) /\ ~seen_digit
             THEN ParseMemLoop(s, i + 1, area \o ch, num, seen_digit)
             ELSE IF IsAsciiDigit(ch)
             THEN ParseMemLoop(s, i + 1, area, num \o ch, TRUE)
             ELSE IF ch = "." /\ seen_digit
             THEN [area |-> area, num |-> num]
             ELSE ParseMemLoop(s, i + 1, area, num, seen_digit)

\* None, or Some(<<area, addr>>)
parse_mem_address(s) ==
    IF ~StartsWith(s, "%") \/ Len(s) < 3 THEN None
    ELSE LET r == ParseMemLoop(s, 2, "", "", FALSE)
         IN  IF r.area # "" /\ r.num # "" /\ ParseI64(r.num) # None
             THEN Some(<< "%" \o r.area, ParseI64(r.num)[1] >>)
             ELSE None

\* s.trim(), for the blanks a policy text can hold
RECURSIVE Trim(_)
Trim(s) ==
    IF Len(s) = 0 THEN s
    ELSE IF CharAt(s, 1) = " " THEN Trim(SubSeq(s, 2, Len(s)))
    ELSE IF CharAt(s, Len(s)) = " " THEN Trim(SubSeq(s, 1, Len(s) - 1))
    ELSE s

\* s.split('-').collect()
RECURSIVE SplitDash(_, _, _)
SplitDash(s, i, current) ==
    IF i > Len(s) THEN << current >>
    ELSE IF CharAt(s, i) = "-" THEN << current >> \o SplitDash(s, i + 1, "")
    ELSE SplitDash(s, i + 1, current \o CharAt(s, i))

\* chars().filter(|c| c.is_ascii_digit()).collect::<String>()
RECURSIVE OnlyDigits(_)
OnlyDigits(s) ==
    IF Len(s) = 0 THEN ""
    ELSE (IF IsAsciiDigit(CharAt(s, 1)) THEN CharAt(s, 1) ELSE "")
         \o OnlyDigits(SubSeq(s, 2, Len(s)))

\* None, or Some(<<start, end>>)
range_bounds(r) ==
    LET parts == SplitDash(Trim(r.address), 1, "")
    IN  IF Len(parts) = 2
        THEN LET a == ParseI64(OnlyDigits(parts[1]))
                 b == ParseI64(OnlyDigits(parts[2]))
             IN  IF a # None /\ b # None THEN Some(<< a[1], b[1] >>) ELSE None
        ELSE None

applies(r, area, addr) ==
    IF ~StartsWith(to_ascii_lowercase(r.address), to_ascii_lowercase(area))
    THEN FALSE
    ELSE IF range_bounds(r) # None
         THEN addr >= range_bounds(r)[1][1] /\ addr <= range_bounds(r)[1][2]
         ELSE FALSE

MemoryArea(address, access) == [address |-> address, access |-> access]

\* the loop over the policy's areas for one assignment
RECURSIVE Rule10Areas(_, _, _, _)
Rule10Areas(areas, i, st, violations) ==
    IF i > Len(areas) THEN violations
    ELSE LET parsed == parse_mem_address(st.target)[1]
             r == areas[i]
         IN  Rule10Areas(areas, i + 1, st,
                IF to_ascii_lowercase(r.access) = "readonly"
                   /\ applies(r, parsed[1], parsed[2])
                THEN Append(violations,
                        Violation(10, "Assign designated register blocks", st.line,
                            "Write to read-only region " \o parsed[1]
                                \o IntToString(parsed[2]),
                            "Move this write to an allowed area or update policy.json"))
                ELSE violations)

\* the loop over the statements of one function
RECURSIVE Rule10Statements(_, _, _)
Rule10Statements(stmts, areas, violations) ==
    IF stmts = <<>> THEN violations
    ELSE LET st == stmts[1]
         IN  Rule10Statements(SubSeq(stmts, 2, Len(stmts)), areas,
                IF st.k = "Assign" /\ parse_mem_address(st.target) # None
                THEN Rule10Areas(areas, 1, st, violations)
                ELSE violations)

RECURSIVE Rule10Functions(_, _, _)
Rule10Functions(functions, areas, violations) ==
    IF functions = <<>> THEN violations
    ELSE Rule10Functions(SubSeq(functions, 2, Len(functions)), areas,
            Rule10Statements(functions[1].statements, areas, violations))

rule10_check(prog, pol) ==
    LET areas == IF pol.memory_areas = None THEN <<>> ELSE pol.memory_areas[1]
    IN  IF areas = <<>>
        THEN RuleResult_ok(10, "Assign designated register blocks")
        ELSE RuleResult_violations(Rule10Functions(prog, areas, <<>>))

RunRule10 ==
    /\ results[10] = None
    /\ results' = [results EXCEPT ![10] = Some(rule10_check(program, policy))]
    /\ UNCHANGED <<program, policy, COMMENT_INDEX, observed, others>>

(***************************************************************************)
(* Inputs of the policy-driven rules (rule 7, rule 10): a policy with or   *)
(* without pairs and memory areas, and one FC that writes one address at   *)
(* the top level, in an If branch or in a Case arm, or that activates the  *)
(* two members of the pair.                                                *)
(***************************************************************************)
RangeWidth == 2
RangeHigh == 100 + RangeWidth
ReadOnlyRange ==
    MemoryArea("%MW100-%MW" \o IntToString(RangeHigh), "ReadOnly")
ReadWriteRange ==
    MemoryArea("%MW100-%MW" \o IntToString(RangeHigh), "ReadWrite")
OtherRange == MemoryArea("%M50-%M80", "ReadWrite")

PolicyPairs == { None, Some(<<>>), Some(<< <<"Motor_Fwd", "Motor_Rev">> >>) }
PolicyAreas ==
    { None, Some(<<>>), Some(<< ReadOnlyRange >>), Some(<< ReadWriteRange >>),
      Some(<< OtherRange, ReadOnlyRange >>) }
Policies ==
    { [pairs |-> p, memory_areas |-> m, platform |-> None] :
        p \in PolicyPairs, m \in PolicyAreas }

WriteTargets ==
    { "%MW" \o IntToString(o) : o \in 99..(RangeHigh + 1) }
    \cup { "%M101", "%QW101", "X" }
WritePositions == {"top", "then", "else", "arm", "case_else"}

\* the write of a target at a position, the enclosing statement on line
PlaceWrite(target, position, line) ==
    LET w == Assign(target, NumberLiteral(1), line + 1)
    IN  CASE position = "top"  -> << w >>
          [] position = "then" -> << IfStmt(VariableRef("Run"), <<w>>, <<>>, line) >>
          [] position = "else" -> << IfStmt(VariableRef("Run"), <<>>, <<w>>, line) >>
          [] position = "arm"  ->
                << CaseStmt(VariableRef("Step"),
                            << CaseArm(<<NumberLiteral(1)>>, <<w>>) >>, <<>>, line) >>
          [] position = "case_else" ->
                << CaseStmt(VariableRef("Step"),
                            << CaseArm(<<NumberLiteral(1)>>, <<>>) >>, <<w>>, line) >>

WriteBodies ==
    { PlaceWrite(t, pos, FirstLine + 1) : t \in WriteTargets, pos \in WritePositions }
ActivationBodies ==
    { <<>>,
      << Assign("Motor_Fwd", BoolLiteral(TRUE), FirstLine + 1) >>,
      << Assign("Motor_Fwd", BoolLiteral(TRUE), FirstLine + 1),
         Assign("Motor_Rev", BoolLiteral(TRUE), FirstLine + 2) >>,
      << Assign("Motor_Fwd", BoolLiteral(TRUE), FirstLine + 1),
         Assign("Motor_Rev", BoolLiteral(TRUE), FirstLine + 2),
         Assign("%MW100", NumberLiteral(1), FirstLine + 3) >> }

PolicyPrograms ==
    { << Function("FC1", "FC", body, FirstLine) >> :
        body \in WriteBodies \cup ActivationBodies }

InitPolicy ==
    /\ program \in PolicyPrograms
    /\ policy \in Policies
    /\ COMMENT_INDEX = None
    /\ results = NothingRun
    /\ observed = NothingRun
    /\ OthersIdle

NextPolicy == RunRule7 \/ RunRule10

SpecPolicy == InitPolicy /\ [][NextPolicy]_vars

\* the assignments of a statement list, those in If branches and Case arms
\* included
RECURSIVE AllAssigns(_)
AllAssigns(stmts) ==
    IF stmts = <<>> THEN {}
    ELSE LET st == stmts[1]
         IN  (CASE st.k = "Assign" -> {st}
                [] st.k = "IfStmt" ->
                      AllAssigns(st.then_branch) \cup AllAssigns(st.else_branch)
                [] st.k = "CaseStmt" ->
                      UNION {AllAssigns(st.cases[i].body) : i \in 1..Len(st.cases)}
                      \cup AllAssigns(st.else_branch)
                [] OTHER -> {})
             \cup AllAssigns(SubSeq(stmts, 2, Len(stmts)))

AreasOf(pol) == IF pol.memory_areas = None THEN <<>> ELSE pol.memory_areas[1]

\* the range is marked ReadOnly, its area prefix is the target's and the
\* offset lies within its bounds, both included
InReadOnlyRange(r, area, addr) ==
    LET first == parse_mem_address(SplitDash(Trim(r.address), 1, "")[1])
    IN  /\ to_ascii_lowercase(r.access) = "readonly"
        /\ first # None
        /\ to_ascii_lowercase(first[1][1]) = to_ascii_lowercase(area)
        /\ range_bounds(r) # None
        /\ addr >= range_bounds(r)[1][1] /\ addr <= range_bounds(r)[1][2]

WritesReadOnly(st) ==
    /\ parse_mem_address(st.target) # None
    /\ \E i \in 1..Len(AreasOf(policy)) :
          InReadOnlyRange(AreasOf(policy)[i], parse_mem_address(st.target)[1][1],
                          parse_mem_address(st.target)[1][2])

\* C13: rule 10 reports a violation for every assignment, at the top level, in
\* If branches or in Case arms, whose target is an address with the area prefix
\* of a ReadOnly range and an offset within it (bounds included), and none for
\* a target in no read-only range.
C13_EveryReadOnlyWriteReported ==
    Ran(10) =>
        \A f \in 1..Len(program) :
            \A st \in AllAssigns(program[f].statements) :
                WritesReadOnly(st) <=> ViolationsAt(10, st.line) # {}

\* the same for the statements rule 10 looks at, the top-level ones, and for
\* the targets of the range's own area
C13_TopLevelWritesReported ==
    Ran(10) =>
        \A f \in 1..Len(program) :
            \A i \in 1..Len(program[f].statements) :
                LET st == program[f].statements[i]
                IN  (st.k = "Assign" /\ StartsWith(st.target, "%MW")) =>
                        (WritesReadOnly(st) <=> ViolationsAt(10, st.line) # {})

NoPairs(pol) == pol.pairs = None \/ pol.pairs = Some(<<>>)
NoMemoryAreas(pol) == pol.memory_areas = None \/ pol.memory_areas = Some(<<>>)

\* the rule returned RuleResult::ok and carries no violation
CleanOutcome(r) == results[r][1].ctor = "ok" /\ ViolationsOf(r) = <<>>

\* C20: with no pairs in the policy (absent or an empty list) rule 7 returns
\* the clean outcome for every program, and with no memory_areas (absent or an
\* empty list) rule 10 returns the clean outcome for every program.
C20_AbsentFieldsAreClean ==
    /\ (Ran(7) /\ NoPairs(policy)) => CleanOutcome(7)
    /\ (Ran(10) /\ NoMemoryAreas(policy)) => CleanOutcome(10)

\* both fields absent, on a program that activates both members of a pair
\* and writes %MW100
C20_Witness ==
    /\ Ran(7) /\ Ran(10)
    /\ policy.pairs = None /\ policy.memory_areas = None
    /\ Len(program[1].statements) = 3
    /\ program[1].statements[2].target = "Motor_Rev"
    /\ program[1].statements[3].target = "%MW100"
    /\ CleanOutcome(7) /\ CleanOutcome(10)

(***************************************************************************)
(* The annotation and guard indices of rules/utils.rs over the life of a   *)
(* process: the installers are called once per analysed file, the helpers  *)
(* are queried in between.                                                 *)
(***************************************************************************)
MaxInstalls == 2        \* calls of the installers in one process
MaxQueryLine == 4       \* lines queried: 0..MaxQueryLine
MaxGap == 2             \* max_gap queried: 0..MaxGap

FileCommentIndexes ==
    { << >>,
      << <<1, "// @Validated">> >>,
      << <<2, "// checked by hand">>, <<3, "(* @PlausibilityCheck 0..100 *)">> >>,
      << <<2, "// @validated">> >> }
FileGuardMaps ==
    { 2 :> "X < 100",
      2 :> "RUN" @@ 3 :> "RUN AND Y > 0" }

set_comment_index(index) ==
    /\ Len(installs) < MaxInstalls
    /\ COMMENT_INDEX' = OnceLockSet(COMMENT_INDEX, index)
    /\ installs' = Append(installs, [cell |-> "COMMENT_INDEX", value |-> index])
    /\ UNCHANGED <<program, policy, GUARD_MAP, query, rerun, source, output,
                   calls, results, observed>>

set_guard_map(map) ==
    /\ Len(installs) < MaxInstalls
    /\ GUARD_MAP' = OnceLockSet(GUARD_MAP, map)
    /\ installs' = Append(installs, [cell |-> "GUARD_MAP", value |-> map])
    /\ UNCHANGED <<program, policy, COMMENT_INDEX, query, rerun, source, output,
                   calls, results, observed>>

\* one call of each helper for a line; after |-> the number of installer calls
\* that preceded it
QueryIndices(line, max_gap) ==
    /\ query' = Some([line |-> line, max_gap |-> max_gap, after |-> Len(installs),
                      annotated |-> has_plausibility_annotation_above(line, max_gap),
                      guard_text |-> current_guard_text(line)])
    /\ UNCHANGED <<program, policy, COMMENT_INDEX, GUARD_MAP, installs, rerun,
                   source, output, calls, results, observed>>

InitIndices ==
    /\ program = <<>>
    /\ policy = DefaultPolicy
    /\ COMMENT_INDEX = None
    /\ results = NothingRun
    /\ observed = NothingRun
    /\ OthersIdle

NextIndices ==
    \/ \E index \in FileCommentIndexes : set_comment_index(index)
    \/ \E map \in FileGuardMaps : set_guard_map(map)
    \/ \E line \in 0..MaxQueryLine, max_gap \in 0..MaxGap : QueryIndices(line, max_gap)

SpecIndices == InitIndices /\ [][NextIndices]_vars

\* the values handed to the installer of a cell so far, oldest first
InstalledFor(cell) == SelectSeq(installs, LAMBDA c : c.cell = cell)
LastInstalledFor(cell) == InstalledFor(cell)[Len(InstalledFor(cell))].value

\* the index holds a tagged comment strictly above line, at most max_gap
\* lines away
AnnotatedIn(comments, line, max_gap) ==
    \E i \in 1..Len(comments) :
        /\ comments[i][1] < line
        /\ line - comments[i][1] <= max_gap
        /\ \E t \in {"@PlausibilityCheck", "@Validated"} : Contains(comments[i][2], t)

GuardTextIn(map, line) == IF line \in DOMAIN map THEN map[line] ELSE ""

\* the query was made after every installer call made so far
QueryIsCurrent == query # None /\ query[1].after = Len(installs)

\* C14: once an index (a guard map) was installed for a first file and
\* installed again for a second one, the helpers answer according to the
\* second file's index (guard map), never the first's.
C14_NoLeakAcrossFiles ==
    QueryIsCurrent =>
        /\ Len(InstalledFor("COMMENT_INDEX")) >= 2 =>
              query[1].annotated =
                  AnnotatedIn(LastInstalledFor("COMMENT_INDEX"),
                              query[1].line, query[1].max_gap)
        /\ Len(InstalledFor("GUARD_MAP")) >= 2 =>
              query[1].guard_text =
                  GuardTextIn(LastInstalledFor("GUARD_MAP"), query[1].line)

\* what the code does: the helpers answer according to the first index
\* (guard map) installed in the process
C14_FirstInstallWins ==
    QueryIsCurrent =>
        /\ InstalledFor("COMMENT_INDEX") # <<>> =>
              query[1].annotated =
                  AnnotatedIn(InstalledFor("COMMENT_INDEX")[1].value,
                              query[1].line, query[1].max_gap)
        /\ InstalledFor("GUARD_MAP") # <<>> =>
              query[1].guard_text =
                  GuardTextIn(InstalledFor("GUARD_MAP")[1].value, query[1].line)

\* C15: has_plausibility_annotation_above(line, max_gap) is true exactly when
\* an index was installed and holds a comment at a line l < line with
\* line - l <= max_gap whose text contains @PlausibilityCheck or @Validated; it
\* is false for line 0 and when no index was installed.
C15_AnnotationAbove ==
    QueryIsCurrent =>
        /\ query[1].annotated <=>
              /\ COMMENT_INDEX # None
              /\ AnnotatedIn(COMMENT_INDEX[1], query[1].line, query[1].max_gap)
        /\ query[1].line = 0 => ~query[1].annotated
        /\ InstalledFor("COMMENT_INDEX") = <<>> => ~query[1].annotated

\* a tagged comment exactly max_gap lines above the queried line
C15_Witness ==
    /\ QueryIsCurrent
    /\ query[1].annotated
    /\ query[1].max_gap > 0
    /\ \E i \in 1..Len(COMMENT_INDEX[1]) :
          /\ query[1].line - COMMENT_INDEX[1][i][1] = query[1].max_gap
          /\ Contains(COMMENT_INDEX[1][i][2], "@PlausibilityCheck")

(***************************************************************************)
(* Repeated invocation of the rules in one process.  rules/mod.rs is not   *)
(* part of the sources at hand: the dispatch below calls each rule's check *)
(* with the arguments its signature takes.                                 *)
(***************************************************************************)
RuleCheck(r, prog, pol) ==
    CASE r = 1  -> rule1_check(prog)
      [] r = 4  -> rule4_check(prog)
      [] r = 6  -> rule6_check(prog)
      [] r = 7  -> rule7_check(prog, pol)
      [] r = 8  -> rule8_check(prog)
      [] r = 10 -> rule10_check(prog, pol)
      [] r = 15 -> rule15_check(prog)
      [] r = 18 -> rule18_check(prog)

\* a cell after a rule read it with OnceLock::take in the place of get
CellAfterGet_taken(cell) == None

\* a cell of utils.rs after a rule read it: OnceLock::get leaves it as it is
CellAfterGet(cell) == cell

MaxInvocations == 2     \* invocations of one rule in one process
RerunRules == {6, 7, 8}

\* the first outcome of a rule goes to results, the later ones to rerun
Invoke(r) ==
    /\ Len(rerun[r]) + (IF results[r] = None THEN 0 ELSE 1) < MaxInvocations
    /\ IF results[r] = None
       THEN /\ results' = [results EXCEPT ![r] = Some(RuleCheck(r, program, policy))]
            /\ rerun' = rerun
       ELSE /\ rerun' = [rerun EXCEPT ![r] = Append(@, RuleCheck(r, program, policy))]
            /\ results' = results
    /\ COMMENT_INDEX' = CellAfterGet(COMMENT_INDEX)
    /\ GUARD_MAP' = CellAfterGet(GUARD_MAP)
    /\ UNCHANGED <<program, policy, installs, query, source, output, calls, observed>>

\* a timer preset set from an HMI value one line below an annotation, the
\* straight-line bodies of the taint rules and the pair activations
RerunBodies ==
    { << Assign("T_Preset", VariableRef("HMI_Time"), FirstLine + 2) >> }
    \cup { Place(p, PrefixLine) \o Place(s, SuffixLine) :
             p \in PrefixBlocks, s \in SuffixBlocks }
    \cup ActivationBodies
RerunPrograms == { << Function("FC1", "FC", body, FirstLine) >> : body \in RerunBodies }
RerunIndexes == { None, Some(<< <<FirstLine + 1, "// @PlausibilityCheck">> >>) }

InitRerun ==
    /\ program \in RerunPrograms
    /\ policy \in {DefaultPolicy, PairPolicy}
    /\ COMMENT_INDEX \in RerunIndexes
    /\ results = NothingRun
    /\ observed = NothingRun
    /\ OthersIdle

NextRerun == \E r \in RerunRules : Invoke(r)

SpecRerun == InitRerun /\ [][NextRerun]_vars

Quote == "\""
IsJsonBlank(c) == c = " " \/ c = "\n" \/ c = "\t" \/ c = "\r"
IsJsonPunct(c) == c \in {"{", "}", "[", "]", ",", ":"}

\* the position of the closing quote of a string whose content starts at i,
\* or 0 when the text ends first
RECURSIVE ClosingQuote(_, _)
ClosingQuote(s, i) ==
    IF i > Len(s) THEN 0
    ELSE IF CharAt(s, i) = Quote THEN i
    ELSE ClosingQuote(s, i + 1)

\* the position after a literal (number, true, false, null) that starts at i
RECURSIVE LiteralEnd(_, _)
LiteralEnd(s, i) ==
    IF i > Len(s) THEN i
    ELSE IF IsJsonBlank(CharAt(s, i)) \/ IsJsonPunct(CharAt(s, i))
            \/ CharAt(s, i) = Quote
    THEN i
    ELSE LiteralEnd(s, i + 1)

IsJsonLiteral(w) ==
    \/ w \in {"true", "false", "null"}
    \/ Len(w) > 0 /\ \A j \in 1..Len(w) : IsAsciiDigit(CharAt(w, j))

\* the position of the first character from i on that is not white space
RECURSIVE SkipBlanks(_, _)
SkipBlanks(s, i) ==
    IF i <= Len(s) /\ IsJsonBlank(CharAt(s, i)) THEN SkipBlanks(s, i + 1) ELSE i

\* the token that starts at position i (a token of kind "bad" where no JSON
\* token starts) and the position after it
JsonTokenAt(s, i) ==
    LET c == CharAt(s, i)
    IN  IF IsJsonPunct(c) THEN [t |-> c, v |-> "", next |-> i + 1]
        ELSE IF c = Quote
        THEN LET close == ClosingQuote(s, i + 1)
             IN  IF close = 0 THEN [t |-> "bad", v |-> "", next |-> Len(s) + 1]
                 ELSE [t |-> "str", v |-> SubSeq(s, i + 1, close - 1),
                       next |-> close + 1]
        ELSE LET stop == LiteralEnd(s, i)
                 w == SubSeq(s, i, stop - 1)
             IN  IF IsJsonLiteral(w) THEN [t |-> "lit", v |-> w, next |-> stop]
                 ELSE [t |-> "bad", v |-> w, next |-> Len(s) + 1]

\* the tokens of the text from position i on
RECURSIVE JsonTokens(_, _)
JsonTokens(s, i) ==
    LET start == SkipBlanks(s, i)
    IN  IF start > Len(s) THEN << >>
        ELSE LET tok == JsonTokenAt(s, start)
             IN  << [t |-> tok.t, v |-> tok.v] >> \o JsonTokens(s, tok.next)

\* the outcome of reading one construct: ok, the value read and the position
\* of the next token
JsonOk(value, next) == [ok |-> TRUE, value |-> value, next |-> next]
JsonErr == [ok |-> FALSE, value |-> "", next |-> 0]

TokenIs(toks, i, t) == i <= Len(toks) /\ toks[i].t = t

RECURSIVE JsonValue(_, _)
RECURSIVE JsonElements(_, _, _)
RECURSIVE JsonMembers(_, _, _)

\* the elements of an array after "[" or after a ",": value, then "," or "]"
JsonElements(toks, i, items) ==
    LET v == JsonValue(toks, i)
    IN  IF ~v.ok THEN JsonErr
        ELSE IF TokenIs(toks, v.next, "]")
        THEN JsonOk([t |-> "arr", items |-> Append(items, v.value)], v.next + 1)
        ELSE IF TokenIs(toks, v.next, ",")
        THEN JsonElements(toks, v.next + 1, Append(items, v.value))
        ELSE JsonErr

\* the members of an object after "{" or after a ",": "key" : value, then
\* "," or "}"
JsonMembers(toks, i, members) ==
    IF ~(TokenIs(toks, i, "str") /\ TokenIs(toks, i + 1, ":")) THEN JsonErr
    ELSE LET v == JsonValue(toks, i + 2)
         IN  IF ~v.ok THEN JsonErr
             ELSE LET all == Append(members, << toks[i].v, v.value >>)
                  IN  IF TokenIs(toks, v.next, "}")
                      THEN JsonOk([t |-> "obj", members |-> all], v.next + 1)
                      ELSE IF TokenIs(toks, v.next, ",")
                      THEN JsonMembers(toks, v.next + 1, all)
                      ELSE JsonErr

JsonValue(toks, i) ==
    IF i > Len(toks) THEN JsonErr
    ELSE CASE toks[i].t = "str" -> JsonOk([t |-> "str", v |-> toks[i].v], i + 1)
           [] toks[i].t = "lit" -> JsonOk([t |-> "lit", v |-> toks[i].v], i + 1)
           [] toks[i].t = "["   ->
                 IF TokenIs(toks, i + 1, "]")
                 THEN JsonOk([t |-> "arr", items |-> << >>], i + 2)
                 ELSE JsonElements(toks, i + 1, << >>)
           [] toks[i].t = "{"   ->
                 IF TokenIs(toks, i + 1, "}")
                 THEN JsonOk([t |-> "obj", members |-> << >>], i + 2)
                 ELSE JsonMembers(toks, i + 1, << >>)
           [] OTHER -> JsonErr

\* serde_json::from_str up to the JSON value: Err on a text that is not
\* exactly one JSON value
JsonFromStr(s) ==
    LET toks == JsonTokens(s, 1)
        v == JsonValue(toks, 1)
    IN  IF v.ok /\ v.next = Len(toks) + 1 THEN Some(v.value) ELSE None

\* the members of an object with the key
MembersNamed(members, key) == {i \in 1..Len(members) : members[i][1] = key}

\* deny_unknown_fields, and serde's rejection of a field given twice
FieldsAllowed(members, fields) ==
    /\ \A i \in 1..Len(members) : members[i][1] \in fields
    /\ \A key \in fields : Cardinality(MembersNamed(members, key)) <= 1

\* the JSON value of a field of a struct given as an object (None when the
\* field is missing) or as an array of all its fields in order
FieldValue(v, fields, n) ==
    IF v.t = "obj"
    THEN IF MembersNamed(v.members, fields[n]) = {} THEN None
         ELSE Some(v.members[CHOOSE i \in MembersNamed(v.members, fields[n]) : TRUE][2])
    ELSE Some(v.items[n])

\* a struct is read from an object with allowed fields or from an array that
\* holds every field
StructShape(v, fields) ==
    \/ v.t = "obj" /\ FieldsAllowed(v.members, {fields[n] : n \in 1..Len(fields)})
    \/ v.t = "arr" /\ Len(v.items) = Len(fields)

IsJsonNull(v) == v.t = "lit" /\ v.v = "null"

\* [String; 2]
IsPairJson(v) ==
    v.t = "arr" /\ Len(v.items) = 2 /\ \A i \in 1..2 : v.items[i].t = "str"

MemoryAreaFields == <<"address", "access">>
\* MemoryArea: both fields are required strings
IsMemoryAreaJson(v) ==
    /\ StructShape(v, MemoryAreaFields)
    /\ \A n \in 1..2 :
          /\ FieldValue(v, MemoryAreaFields, n) # None
          /\ FieldValue(v, MemoryAreaFields, n)[1].t = "str"

\* Option<Vec<T>>: absent or null, or an array of T
IsOptionalListJson(field, IsItem(_)) ==
    \/ field = None
    \/ IsJsonNull(field[1])
    \/ field[1].t = "arr" /\ \A i \in 1..Len(field[1].items) : IsItem(field[1].items[i])

IsOptionalStringJson(field) ==
    field = None \/ IsJsonNull(field[1]) \/ field[1].t = "str"

PolicyFields == <<"pairs", "memory_areas", "platform">>

IsPolicyJson(v) ==
    /\ StructShape(v, PolicyFields)
    /\ IsOptionalListJson(FieldValue(v, PolicyFields, 1), IsPairJson)
    /\ IsOptionalListJson(FieldValue(v, PolicyFields, 2), IsMemoryAreaJson)
    /\ IsOptionalStringJson(FieldValue(v, PolicyFields, 3))

\* the Option<Vec<T>> of a field that passed IsOptionalListJson
OptionalList(field, Item(_)) ==
    IF field = None \/ IsJsonNull(field[1]) THEN None
    ELSE Some([i \in 1..Len(field[1].items) |-> Item(field[1].items[i])])

PairOfJson(v) == << v.items[1].v, v.items[2].v >>
MemoryAreaOfJson(v) ==
    MemoryArea(FieldValue(v, MemoryAreaFields, 1)[1].v,
               FieldValue(v, MemoryAreaFields, 2)[1].v)

PolicyOfJson(v) ==
    [pairs        |-> OptionalList(FieldValue(v, PolicyFields, 1), PairOfJson),
     memory_areas |-> OptionalList(FieldValue(v, PolicyFields, 2), MemoryAreaOfJson),
     platform     |-> LET f == FieldValue(v, PolicyFields, 3)
                      IN  IF f = None \/ IsJsonNull(f[1]) THEN None ELSE Some(f[1].v)]

\* Result<Policy, String>
Ok(x)  == [ok |-> TRUE, value |-> x]
Err(e) == [ok |-> FALSE, err |-> e]

\* serde_json::from_str::<Policy>(s).map_err(|e| format!("Invalid policy
\* JSON: {}", e)); the text after the prefix stands for serde's message
parse_policy_from_text(s) ==
    LET json == JsonFromStr(s)
    IN  IF json = None THEN Err("Invalid policy JSON: not a JSON value")
        ELSE IF ~IsPolicyJson(json[1])
        THEN Err("Invalid policy JSON: not a Policy")
        ELSE Ok(PolicyOfJson(json[1]))

EXAMPLE_POLICY_JSON ==
    "{\n"
    \o "  \"pairs\": [\n"
    \o "    [\"Motor_Fwd\", \"Motor_Rev\"],\n"
    \o "    [\"Valve_Open\", \"Valve_Close\"]\n"
    \o "  ],\n"
    \o "  \"memory_areas\": [\n"
    \o "    { \"address\": \"%MW100-%MW200\", \"access\": \"ReadOnly\" },\n"
    \o "    { \"address\": \"%M50-%M80\",     \"access\": \"ReadWrite\" },\n"
    \o "  \"platform\": \"S7\"\n"
    \o "  ]\n"
    \o "}"

(***************************************************************************)
(* lib.rs : check_plc_code.  parser/mod.rs and rules/mod.rs are not part   *)
(* of the sources at hand: the front end is modelled by its result, given  *)
(* with the call, and run_all_for_wasm by one outcome per rule in rule     *)
(* order.  The returned JSON string is modelled by the list it serialises. *)
(***************************************************************************)
\* str::trim kept out: the text is handed on as it is
str_trim_skipped(s) == s

\* str::trim
RECURSIVE str_trim(_)
str_trim(s) ==
    IF Len(s) = 0 THEN s
    ELSE IF IsJsonBlank(CharAt(s, 1)) THEN str_trim(SubSeq(s, 2, Len(s)))
    ELSE IF IsJsonBlank(CharAt(s, Len(s))) THEN str_trim(SubSeq(s, 1, Len(s) - 1))
    ELSE s

WasmRuleResult(status, rule_no, rule_name, violation) ==
    [status |-> status, rule_no |-> rule_no, rule_name |-> rule_name,
     violation |-> violation]

\* the sentinel result without the front end's message
ParseErrorResult_bare(e) ==
    << WasmRuleResult("ERROR", 0, "Parse Error",
          Some(Violation(0, "Parse Error", 0, "Parse Error",
                         "Check file type and syntax."))) >>

\* err_result
ParseErrorResult(e) ==
    << WasmRuleResult("ERROR", 0, "Parse Error",
          Some(Violation(0, "Parse Error", 0, "Parse Error: " \o e,
                         "Check file type and syntax."))) >>

\* the entry pushed to errors
PolicyErrorResult(err) ==
    WasmRuleResult("ERROR", 0, "Policy Parsing Error",
        Some(Violation(0, "Policy Parsing Error", 0, err,
             "Fix policy JSON format. See About -> Custom Policy example.")))

RuleOrder == <<1, 4, 6, 7, 8, 10, 15, 18>>
run_all_for_wasm(prog, pol) ==
    [i \in 1..Len(RuleOrder) |->
        [rule_no |-> RuleOrder[i], result |-> RuleCheck(RuleOrder[i], prog, pol)]]

\* what check_plc_code returns and does for a front-end result and a policy
\* text: the outcome list, the Program and Policy the rules ran on and
\* whether the policy parser was called
check_plc_code(parsed, policy_json) ==
    IF ~parsed.ok
    THEN [outcomes |-> ParseErrorResult(parsed.err), program |-> None,
          policy |-> None, policy_parsed |-> FALSE]
    ELSE LET trimmed_policy == str_trim(policy_json)
             result == parse_policy_from_text(trimmed_policy)
             pol == IF trimmed_policy # "" /\ result.ok THEN result.value
                    ELSE DefaultPolicy
             errors == IF trimmed_policy # "" /\ ~result.ok
                       THEN << PolicyErrorResult(result.err) >>
                       ELSE << >>
         IN  [outcomes |-> errors \o run_all_for_wasm(parsed.value, pol),
              program |-> Some(parsed.value), policy |-> Some(pol),
              policy_parsed |-> trimmed_policy # ""]

CheckPlcCode ==
    /\ source # None
    /\ output = None
    /\ output' = Some(check_plc_code(source[1].parsed, source[1].policy_json))
    /\ program' = IF output'[1].program = None THEN program
                  ELSE output'[1].program[1]
    /\ policy' = IF output'[1].policy = None THEN policy
                 ELSE output'[1].policy[1]
    /\ results' = [r \in Rules |->
                     LET ran == {i \in 1..Len(output'[1].outcomes) :
                                    output'[1].outcomes[i].rule_no = r}
                     IN  IF ran = {} THEN results[r]
                         ELSE Some(output'[1].outcomes[CHOOSE i \in ran : TRUE].result)]
    /\ UNCHANGED <<COMMENT_INDEX, GUARD_MAP, installs, query, rerun, source, calls,
                   observed>>

ParseMessages == {"unsupported file type", "empty source"}
PolicyTexts ==
    { "", "   ", " \n\t", "{}", "  {} \n",
      "{\"pairs\": [[\"Motor_Fwd\", \"Motor_Rev\"]]}",
      "{\"memory_areas\": [{\"address\": \"%MW100-%MW200\", \"access\": \"ReadOnly\"}]}",
      "{\"pairs\": [", "{\"pair\": []}", "{\"pairs\": [],}",
      EXAMPLE_POLICY_JSON }

InitPipeline ==
    /\ program = <<>>
    /\ policy = DefaultPolicy
    /\ COMMENT_INDEX = None
    /\ GUARD_MAP = None
    /\ installs = <<>>
    /\ query = None
    /\ rerun = NothingRun
    /\ source \in { Some([parsed |-> p, policy_json |-> t]) :
                      p \in {Err(e) : e \in ParseMessages}
                            \cup {Ok(prog) : prog \in PolicyPrograms},
                      t \in PolicyTexts }
    /\ output = None
    /\ calls = None
    /\ results = NothingRun
    /\ observed = NothingRun

NextPipeline == CheckPlcCode

SpecPipeline == InitPipeline /\ [][NextPipeline]_vars

Returned == output # None
Outcomes == output[1].outcomes
ParseFailed == ~source[1].parsed.ok

\* the outcome is the error sentinel: rule_no 0 and status ERROR
IsErrorOutcome(o) == o.rule_no = 0 /\ o.status = "ERROR"

\* C17: when the front end returns a parse failure, check_plc_code returns
\* exactly one outcome, with rule_no 0 and status ERROR, that carries the parse
\* message; no rule is executed and the policy text is not parsed.
C17_ParseFailureSentinel ==
    (Returned /\ ParseFailed) =>
        /\ Len(Outcomes) = 1
        /\ IsErrorOutcome(Outcomes[1])
        /\ Contains(Outcomes[1].violation[1].reason, source[1].parsed.err)
        /\ results = NothingRun
        /\ ~output[1].policy_parsed

\* a parse failure met together with a policy text that is itself malformed
C17_Witness ==
    /\ Returned /\ ParseFailed
    /\ source[1].policy_json = "{\"pairs\": ["
    /\ Len(Outcomes) = 1
    /\ Outcomes[1].violation[1].reason = "Parse Error: unsupported file type"

\* the text holds nothing but white space
IsBlankText(s) == \A i \in 1..Len(s) : IsJsonBlank(CharAt(s, i))

\* C18: when the program parses and the non-empty policy text is malformed,
\* the result is one ERROR outcome (rule_no 0, carrying the policy parser's
\* message) followed by the outcomes of all rules run with the default policy;
\* an empty or white-space-only policy text gives no error outcome and the
\* rules run with the default policy.
C18_PolicyErrorThenRules ==
    (Returned /\ ~ParseFailed) =>
        LET text == source[1].policy_json
            prog == source[1].parsed.value
        IN  /\ (~IsBlankText(text) /\ ~parse_policy_from_text(str_trim(text)).ok) =>
                  /\ Len(Outcomes) = 1 + Len(RuleOrder)
                  /\ IsErrorOutcome(Outcomes[1])
                  /\ Outcomes[1].violation[1].reason =
                        parse_policy_from_text(str_trim(text)).err
                  /\ SubSeq(Outcomes, 2, Len(Outcomes)) =
                        run_all_for_wasm(prog, DefaultPolicy)
                  /\ policy = DefaultPolicy
            /\ IsBlankText(text) =>
                  /\ Outcomes = run_all_for_wasm(prog, DefaultPolicy)
                  /\ policy = DefaultPolicy
                  /\ ~output[1].policy_parsed

\* a policy text with an unknown field, on a program that activates both
\* members of the pair: the error outcome, then the rules, rule 7 clean
C18_Witness ==
    /\ Returned /\ ~ParseFailed
    /\ source[1].policy_json = "{\"pair\": []}"
    /\ Len(program[1].statements) = 2
    /\ Len(Outcomes) = 1 + Len(RuleOrder)
    /\ Outcomes[1].rule_name = "Policy Parsing Error"
    /\ Outcomes[5].rule_no = 7 /\ Outcomes[5].result.ctor = "ok"

\* C19: the example policy text EXAMPLE_POLICY_JSON is accepted by the strict
\* policy parser and gives a Policy with at least one pair and at least one
\* memory area.
C19_ExamplePolicyParses ==
    (Returned /\ ~ParseFailed /\ source[1].policy_json = EXAMPLE_POLICY_JSON) =>
        /\ \A i \in 1..Len(Outcomes) : Outcomes[i].rule_no # 0
        /\ policy.pairs # None /\ Len(policy.pairs[1]) >= 1
        /\ policy.memory_areas # None /\ Len(policy.memory_areas[1]) >= 1

\* what the code does with the example: the parser rejects it and the rules
\* run with the default policy
C19_ExamplePolicyRejected ==
    (Returned /\ ~ParseFailed /\ source[1].policy_json = EXAMPLE_POLICY_JSON) =>
        /\ IsErrorOutcome(Outcomes[1])
        /\ policy = DefaultPolicy

(***************************************************************************)
(* Inputs of the taint rules under guards and annotations: one FC whose    *)
(* body is an optional leading assignment on the first line, then one      *)
(* statement that stands alone or in the then- or the else-branch of an If *)
(* (keyword three lines, statement four lines below the first line), then  *)
(* an optional trailing assignment.  A validation comment sits either one  *)
(* line below the first line (three lines above the statement) or on the   *)
(* first line (four lines above it).                                       *)
(***************************************************************************)
GuardPrefixLine == FirstLine
GuardIfLine == FirstLine + 3
GuardStmtLine == FirstLine + 4
GuardSuffixLine == FirstLine + 8

GuardAtoms(line) ==
    { Assign("X", VariableRef("HMI_Speed"), line),
      Assign("x", NumberLiteral(0), line),
      Assign("T_Preset", VariableRef("HMI_Speed"), line),
      Assign("T_Preset", VariableRef("X"), line),
      Assign("Motor_Speed", VariableRef("HMI_Speed"), line),
      Call("TON", << <<"IN", VariableRef("Run")>>,
                     <<"PT", VariableRef("HMI_Speed")>> >>, line) }

GuardConds ==
    { BinaryOp("Lt", VariableRef("HMI_Speed"), NumberLiteral(100)),
      BinaryOp("Lt", VariableRef("X"), NumberLiteral(100)),
      BinaryOp("Lt", VariableRef("I"), NumberLiteral(10)),
      VariableRef("Run") }

GuardMiddles ==
    { <<a>> : a \in GuardAtoms(GuardStmtLine) }
    \cup { << IfStmt(c, <<>>, <<>>, GuardIfLine) >> : c \in GuardConds }
    \cup { << IfStmt(c, <<a>>, <<>>, GuardIfLine) >> :
             c \in GuardConds, a \in GuardAtoms(GuardStmtLine) }
    \cup { << IfStmt(c, <<>>, <<a>>, GuardIfLine) >> :
             c \in GuardConds, a \in GuardAtoms(GuardStmtLine) }

GuardPrefixes == { <<>>, << Assign("X", VariableRef("HMI_Speed"), GuardPrefixLine) >> }
GuardSuffixes ==
    { <<>>, << Assign("T_Preset", VariableRef("X"), GuardSuffixLine) >>,
      << Assign("T_Preset", VariableRef("HMI_Speed"), GuardSuffixLine) >> }

GuardPrograms ==
    { << Function("FC1", "FC", p \o m \o s, FirstLine) >> :
        p \in GuardPrefixes, m \in GuardMiddles, s \in GuardSuffixes }

GuardIndexes ==
    { None, Some(<< <<FirstLine + 1, "// @Validated">> >>),
      Some(<< <<FirstLine, "// @PlausibilityCheck">> >>) }

InitGuards ==
    /\ program \in GuardPrograms
    /\ policy = DefaultPolicy
    /\ COMMENT_INDEX \in GuardIndexes
    /\ results = NothingRun
    /\ observed = NothingRun
    /\ OthersIdle

NextGuards == RunRule6 \/ RunRule8

SpecGuards == InitGuards /\ [][NextGuards]_vars

\* the Assign and Call statements of a body with what encloses them: the
\* statement, rule 6's taint set just before and just after it, and the
\* conditions of the Ifs whose then-branch holds it
GuardSites(body) ==
    { [st |-> body[i], pre |-> TaintAfter6(body, i - 1),
       post |-> TaintAfter6(body, i), guards |-> {}] :
        i \in {j \in 1..Len(body) : body[j].k \in {"Assign", "Call"}} }
    \cup { [st |-> body[i].then_branch[1], pre |-> TaintAfter6(body, i - 1),
            post |-> ThenExit6(body, i), guards |-> {body[i].condition}] :
             i \in {j \in 1..Len(body) :
                      body[j].k = "IfStmt" /\ Len(body[j].then_branch) = 1} }
    \cup { [st |-> body[i].else_branch[1], pre |-> TaintAfter6(body, i - 1),
            post |-> ElseExit6(body, i), guards |-> {}] :
             i \in {j \in 1..Len(body) :
                      body[j].k = "IfStmt" /\ Len(body[j].else_branch) = 1} }

\* the variable names of these programs, upper-cased
GuardNames == {"X", "T_PRESET", "MOTOR_SPEED", "HMI_SPEED", "I", "RUN"}

\* the value mentions a sensitive-source variable or a tainted variable
ValueTainted(value, tainted) ==
    \E v \in collect_vars(value) : is_sensitive_variable(v) \/ v \in tainted

\* the condition is a range comparison
IsRangeComparison(c) == c.k = "BinaryOp" /\ c.op \in {"Lt", "Le", "Gt", "Ge"}

\* a validation annotation within 3 lines above, or a validating enclosing guard
Sanitized6(site) ==
    \/ has_plausibility_annotation_above(site.st.line, 3)
    \/ \E c \in site.guards : IsRangeComparison(c)

\* C21: in rule 6's scan, after an Assign the upper-cased target is in the
\* taint set exactly when the value is tainted and the flow is not sanitized
\* (no annotation within 3 lines above, no validating enclosing guard);
\* otherwise it is removed, whatever it was before; every other variable is
\* tainted after the Assign exactly when it was before.
C21_AssignTaint ==
    Ran(6) =>
        \A f \in 1..Len(program) :
            LET body == program[f].statements
            IN  /\ observed[6][1][f] = TaintAfter6(body, Len(body))
                /\ \A site \in GuardSites(body) :
                      site.st.k = "Assign" =>
                        LET t == to_ascii_uppercase(site.st.target)
                        IN  /\ t \in site.post <=>
                                  (ValueTainted(site.st.value, site.pre)
                                   /\ ~Sanitized6(site))
                            /\ \A v \in GuardNames \ {t} :
                                  v \in site.post <=> v \in site.pre

\* X tainted on the first line, then cleared by  x := 0
C21_Witness ==
    /\ Ran(6)
    /\ LET body == program[1].statements
       IN  /\ Len(body) = 2
           /\ IsAssignOfVar(body[1], "X", "HMI_Speed")
           /\ body[2] = Assign("x", NumberLiteral(0), GuardStmtLine)
           /\ TaintAfter6(body, 1) = {"X"}
           /\ observed[6][1][1] = {}

\* the condition compares the variable with a numeric literal, in either order
ComparesWithLiteral(c, name) ==
    /\ c.k = "BinaryOp"
    /\ c.op \in {"Lt", "Le", "Gt", "Ge", "Eq", "Neq"}
    /\ \/ /\ c.left.k = "VariableRef"
          /\ to_ascii_uppercase(c.left.name) = to_ascii_uppercase(name)
          /\ c.right.k = "NumberLiteral"
       \/ /\ c.right.k = "VariableRef"
          /\ to_ascii_uppercase(c.right.name) = to_ascii_uppercase(name)
          /\ c.left.k = "NumberLiteral"

\* an assignment of a sensitive-source variable to a sink target of rule 8 in
\* the then-branch of an If whose condition compares that variable with a
\* numeric literal
IsGuardedSourceToSink(site) ==
    /\ site.st.k = "Assign"
    /\ is_assignment_a_sink(site.st.target)
    /\ site.st.value.k = "VariableRef"
    /\ is_sensitive_variable(site.st.value.name)
    /\ \E c \in site.guards : ComparesWithLiteral(c, site.st.value.name)

\* C22: in rule 8, an assignment of a sensitive-source variable to a sink
\* target in the then-branch of an If whose condition compares that same
\* variable with a numeric literal is sanitized: no violation on its line.
C22_GuardedSourceIsSanitized ==
    Ran(8) =>
        \A f \in 1..Len(program) :
            \A site \in GuardSites(program[f].statements) :
                IsGuardedSourceToSink(site) => ViolationsAt(8, site.st.line) = {}

\* what rule 8 does: the guard changes nothing for a value that is itself a
\* source, the assignment is reported once
C22_GuardedSourceStillReported ==
    Ran(8) =>
        \A f \in 1..Len(program) :
            \A site \in GuardSites(program[f].statements) :
                IsGuardedSourceToSink(site) =>
                    Cardinality(ViolationsAt(8, site.st.line)) = 1

\* an Assign to a preset-named target or a Call of a timer with a PT argument,
\* and the value that reaches the preset
TimerSinkValues(st) ==
    IF st.k = "Assign"
    THEN IF is_timer_preset_sink(st.target, None) THEN {st.value} ELSE {}
    ELSE { st.args[i][2] :
             i \in {j \in 1..Len(st.args) :
                      is_timer_preset_sink(st.name, Some(st.args[j][1]))} }

\* some enclosing condition range-constrains a variable of the value
GuardConstrainsValue(site, value) ==
    \E c \in site.guards :
        \E v \in collect_vars(value) : IsRangeComparison(c) /\ ComparesWithLiteral(c, v)

\* C23: in rule 6, a tainted value that reaches a timer-preset sink with no
\* annotation nearby is reported unless some enclosing If condition
\* range-constrains a variable that occurs in the value; a guard that compares
\* only unrelated variables does not suppress the violation.
C23_GuardMustConstrainValue ==
    Ran(6) =>
        \A f \in 1..Len(program) :
            \A site \in GuardSites(program[f].statements) :
                \A value \in TimerSinkValues(site.st) :
                    (/\ ValueTainted(value, site.pre)
                     /\ ~has_plausibility_annotation_above(site.st.line, 3)
                     /\ ~GuardConstrainsValue(site, value))
                        => ViolationsAt(6, site.st.line) # {}

\* what rule 6 does: any enclosing range comparison suppresses the violation,
\* whatever variable it compares
C23_AnyComparisonSuppresses ==
    Ran(6) =>
        \A f \in 1..Len(program) :
            \A site \in GuardSites(program[f].statements) :
                \A value \in TimerSinkValues(site.st) :
                    ViolationsAt(6, site.st.line) # {} <=>
                        (/\ ValueTainted(value, site.pre)
                         /\ ~has_plausibility_annotation_above(site.st.line, 3)
                         /\ ~\E c \in site.guards : IsRangeComparison(c))

(***************************************************************************)
(* Inputs of rule 7 with branches: one FC whose body is an optional        *)
(* assignment, an optional If with at most one assignment per branch, and  *)
(* an optional assignment, checked against the pair [Motor_Fwd, Motor_Rev] *)
(***************************************************************************)
BranchAtoms(line) ==
    { Assign(t, BoolLiteral(b), line) :
        t \in {"Motor_Fwd", "Motor_Rev"}, b \in BOOLEAN }
BranchBlocks(line) == { <<>> } \cup { <<a>> : a \in BranchAtoms(line) }
BranchIfs ==
    { <<>> } \cup
    { << IfStmt(VariableRef("Run"), t, e, FirstLine + 1) >> :
        t \in BranchBlocks(FirstLine + 2), e \in BranchBlocks(FirstLine + 4) }
BranchBodies ==
    { p \o c \o s :
        p \in BranchBlocks(FirstLine), c \in BranchIfs, s \in BranchBlocks(FirstLine + 6) }
BranchPrograms == { << Function("FC1", "FC", body, FirstLine) >> : body \in BranchBodies }

InitBranches ==
    /\ program \in BranchPrograms
    /\ policy = PairPolicy
    /\ COMMENT_INDEX = None
    /\ results = NothingRun
    /\ observed = NothingRun
    /\ OthersIdle

NextBranches == RunRule7

SpecBranches == InitBranches /\ [][NextBranches]_vars

\* after the first i top-level statements of body, the most recent top-level
\* assignment to the signal (assignments inside If branches left aside) gave
\* it TRUE
ActiveOutsideIfs(body, i, signal) ==
    \E j \in 1..i :
        /\ body[j].k = "Assign" /\ body[j].target = signal
        /\ body[j].value = BoolLiteral(TRUE)
        /\ \A m \in (j + 1)..i : ~(body[m].k = "Assign" /\ body[m].target = signal)

\* the signal is active after the one statement of a branch entered with the
\* activations that hold before the If at body[i]
ActiveInBranch(body, i, branch, signal) ==
    IF branch[1].target = signal THEN branch[1].value = BoolLiteral(TRUE)
    ELSE ActiveOutsideIfs(body, i - 1, signal)

PairSignals == {"Motor_Fwd", "Motor_Rev"}

\* the lines of the top-level statement body[i] on which both signals are
\* active: the assignment's own line, or the line of a branch's assignment
ConcurrentLinesAt(body, i) ==
    IF body[i].k = "Assign"
    THEN IF \A s \in PairSignals : ActiveOutsideIfs(body, i, s)
         THEN {body[i].line} ELSE {}
    ELSE { b[1].line :
             b \in { br \in {body[i].then_branch, body[i].else_branch} :
                       /\ Len(br) = 1
                       /\ \A s \in PairSignals : ActiveInBranch(body, i, br, s) } }

\* C26: in rule 7 the activations recorded inside an If branch are discarded
\* at the end of the branch: each branch starts from the set that holds just
\* before the If, and the statements after the If see that same set.  The
\* violations are those of the first top-level statement at which both
\* signals are active on some path; IF c THEN A := TRUE; END_IF; B := TRUE;
\* gives none, A := TRUE; IF c THEN B := TRUE; END_IF gives one in the branch.
C26_BranchActivationsDiscarded ==
    Ran(7) =>
        LET body == program[1].statements
            hits == {i \in 1..Len(body) : ConcurrentLinesAt(body, i) # {}}
            reported == {ViolationsOf(7)[n].line : n \in 1..Len(ViolationsOf(7))}
        IN  IF hits = {} THEN ViolationsOf(7) = <<>>
            ELSE \A i \in hits :
                    (\A m \in hits : i <= m) => reported = ConcurrentLinesAt(body, i)

\* Motor_Fwd := TRUE; IF Run THEN Motor_Rev := TRUE; END_IF : one violation, on
\* the line of the assignment in the branch
C26_Witness ==
    /\ Ran(7)
    /\ program[1].statements =
          << Assign("Motor_Fwd", BoolLiteral(TRUE), FirstLine),
             IfStmt(VariableRef("Run"),
                    << Assign("Motor_Rev", BoolLiteral(TRUE), FirstLine + 2) >>,
                    <<>>, FirstLine + 1) >>
    /\ Len(ViolationsOf(7)) = 1
    /\ ViolationsOf(7)[1].line = FirstLine + 2

\* IF Run THEN Motor_Fwd := TRUE; END_IF; Motor_Rev := TRUE; : no violation
C26_WitnessDiscarded ==
    /\ Ran(7)
    /\ program[1].statements =
          << IfStmt(VariableRef("Run"),
                    << Assign("Motor_Fwd", BoolLiteral(TRUE), FirstLine + 2) >>,
                    <<>>, FirstLine + 1),
             Assign("Motor_Rev", BoolLiteral(TRUE), FirstLine + 6) >>
    /\ ViolationsOf(7) = <<>>

(***************************************************************************)
(* rules/rule1.rs, step by step: the two recursive walks as a call stack.  *)
(* A frame is one call of the walk: its argument stmts, its depth          *)
(* argument (count_branches_with_depth only), the position i of the        *)
(* for-loop, the arm j of a Case being walked, the local counter c, and    *)
(* where the call stands (pc).                                             *)
(***************************************************************************)
CountBranches == "count_branches_with_depth"
StatementCount == "statement_count"
Walks == {CountBranches, StatementCount}

Frame(stmts, depth) ==
    [stmts |-> stmts, depth |-> depth, pc |-> "entry", i |-> 0, j |-> 0, c |-> 0]

Max(a, b) == IF a > b THEN a ELSE b

\* the call on top of the stack replaced by the frame top
SetTop(top) == [calls EXCEPT !.frames[Len(calls.frames)] = top]

\* the call on top moves on to top and calls the walk on stmts
PushCall(top, stmts) ==
    LET depth == IF calls.fn = CountBranches THEN top.depth + 1 ELSE None
        frames == Append(SubSeq(calls.frames, 1, Len(calls.frames) - 1) \o <<top>>,
                         Frame(stmts, depth))
    IN  [calls EXCEPT !.frames = frames, !.deepest = Max(@, Len(frames))]

\* where a caller stands once the call it waited for has returned
AfterReturn(pc) ==
    CASE pc = "then" -> "after_then"
      [] pc = "arm"  -> "after_arm"
      [] OTHER       -> "for"       \* "else", "case_else": next statement

\* the call on top returns v: c += v in its caller, or the walk is over
ReturnValue(v) ==
    LET n == Len(calls.frames)
    IN  IF n = 1
        THEN [calls EXCEPT !.frames = <<>>, !.returned = Some(v)]
        ELSE LET caller == calls.frames[n - 1]
             IN  [calls EXCEPT !.frames =
                     Append(SubSeq(calls.frames, 1, n - 2),
                            [caller EXCEPT !.c = @ + v, !.pc = AfterReturn(@)])]

\* rule 1's check calls a walk on the body of a function
CallWalk(fn, f) ==
    /\ calls = None
    /\ calls' = [fn |-> fn, function |-> f,
                 frames |-> << Frame(program[f].statements,
                                     IF fn = CountBranches THEN 0 ELSE None) >>,
                 deepest |-> 1, returned |-> None]
    /\ UNCHANGED <<program, policy, COMMENT_INDEX, GUARD_MAP, installs, query,
                   rerun, source, output, results, observed>>

Walking == calls # None /\ calls.frames # <<>>
Top == calls.frames[Len(calls.frames)]
WalkFrame == <<program, policy, COMMENT_INDEX, GUARD_MAP, installs, query,
               rerun, source, output, results, observed>>

\* the head of the callee: `if depth > 100 { return 0; }` in
\* count_branches_with_depth, nothing in statement_count
EnterWalk ==
    /\ Walking
    /\ Top.pc = "entry"
    /\ calls' = IF calls.fn = CountBranches /\ Top.depth > DepthCap
                THEN ReturnValue(0)
                ELSE SetTop([Top EXCEPT !.pc = "for"])
    /\ UNCHANGED WalkFrame

\* `for st in stmts`: the next statement, up to the first nested call
NextStatement ==
    /\ Walking
    /\ Top.pc = "for"
    /\ Top.i < Len(Top.stmts)
    /\ LET st == Top.stmts[Top.i + 1]
           at == [Top EXCEPT !.i = @ + 1]
       IN  calls' =
             IF st.k = "IfStmt"
             THEN PushCall([at EXCEPT !.c = @ + 1, !.pc = "then"], st.then_branch)
             ELSE IF st.k = "CaseStmt"
             THEN LET c == IF calls.fn = StatementCount THEN at.c + 1
                           ELSE at.c + Len(st.cases)
                                + (IF st.else_branch # <<>> THEN 1 ELSE 0)
                  IN  IF st.cases # <<>>
                      THEN PushCall([at EXCEPT !.c = c, !.pc = "arm", !.j = 1],
                                    st.cases[1].body)
                      ELSE PushCall([at EXCEPT !.c = c, !.pc = "case_else"],
                                    st.else_branch)
             ELSE SetTop([at EXCEPT !.c = IF calls.fn = StatementCount
                                          THEN @ + 1 ELSE @])
    /\ UNCHANGED WalkFrame

\* the rest of an If or a Case arm once the then-branch or an arm is walked
AfterBranch ==
    /\ Walking
    /\ Top.pc \in {"after_then", "after_arm"}
    /\ LET st == Top.stmts[Top.i]
       IN  calls' =
             IF Top.pc = "after_then"
             THEN IF calls.fn = CountBranches /\ st.else_branch = <<>>
                  THEN SetTop([Top EXCEPT !.pc = "for"])
                  ELSE PushCall([Top EXCEPT !.pc = "else"], st.else_branch)
             ELSE IF Top.j < Len(st.cases)
                  THEN PushCall([Top EXCEPT !.pc = "arm", !.j = @ + 1],
                                st.cases[Top.j + 1].body)
                  ELSE PushCall([Top EXCEPT !.pc = "case_else"], st.else_branch)
    /\ UNCHANGED WalkFrame

\* the loop is over: the call returns its counter
ReturnWalk ==
    /\ Walking
    /\ Top.pc = "for"
    /\ Top.i = Len(Top.stmts)
    /\ calls' = ReturnValue(Top.c)
    /\ UNCHANGED WalkFrame

(***************************************************************************)
(* Inputs of the walks: one FC whose body is a chain of n compound         *)
(* statements, each holding the next in its then-branch, in its            *)
(* else-branch or in its one Case arm, around one assignment; n is small   *)
(* or around the depth cap.                                                *)
(***************************************************************************)
MaxShallow == 2
MaxNesting == 101
NestingWays == {"then", "else", "arm"}
NestingDepths == (0..MaxShallow) \cup (DepthCap..MaxNesting)

\* one compound statement around the body inner
Wrap(way, inner) ==
    CASE way = "then" ->
           << IfStmt(VariableRef("Run"), inner, <<>>, FirstLine) >>
      [] way = "else" ->
           << IfStmt(VariableRef("Run"), <<>>, inner, FirstLine) >>
      [] way = "arm" ->
           << CaseStmt(VariableRef("Step"),
                       << CaseArm(<<NumberLiteral(1)>>, inner) >>, <<>>, FirstLine) >>

Wrap10(way, inner) ==
    Wrap(way, Wrap(way, Wrap(way, Wrap(way, Wrap(way,
    Wrap(way, Wrap(way, Wrap(way, Wrap(way, Wrap(way, inner))))))))))

\* a chain of n compound statements around one assignment; the chain is
\* built ten levels at a time around an inner chain that is evaluated first,
\* which keeps the evaluation of a deep chain shallow
RECURSIVE Nested(_, _)
Nested(way, n) ==
    IF n = 0 THEN << SetA(FirstLine) >>
    ELSE IF n < 10 THEN Wrap(way, Nested(way, n - 1))
    ELSE LET inner == Nested(way, n - 10)
         IN  IF Len(inner) = 0 THEN inner ELSE Wrap10(way, inner)

NestedPrograms ==
    { << Function("FC1", "FC", Nested(way, n), FirstLine) >> :
        way \in NestingWays, n \in NestingDepths }

InitWalks ==
    /\ program \in NestedPrograms
    /\ policy = DefaultPolicy
    /\ COMMENT_INDEX = None
    /\ results = NothingRun
    /\ observed = NothingRun
    /\ OthersIdle

NextWalks ==
    \/ \E fn \in Walks, f \in 1..Len(program) : CallWalk(fn, f)
    \/ EnterWalk
    \/ NextStatement
    \/ AfterBranch
    \/ ReturnWalk

SpecWalks == InitWalks /\ [][NextWalks]_vars

\* the nesting level of the statements a call iterates over is the number of
\* calls below it on the stack
\* C27: both recursive walks of rule 1, the branch count behind the
\* complexity and the statement count, stop descending past DepthCap nested
\* levels: no call of either walk iterates over statements nested deeper.
C27_WalksStopAtDepthCap ==
    calls # None =>
        \A k \in 1..Len(calls.frames) :
            calls.frames[k].pc # "entry" => k - 1 <= DepthCap

\* the branch count stops at the cap
C27_BranchCountStops ==
    (calls # None /\ calls.fn = CountBranches) =>
        /\ calls.deepest <= DepthCap + 2
        /\ \A k \in 1..Len(calls.frames) :
               calls.frames[k].pc # "entry" => k - 1 <= DepthCap

\* the statement count has no cap: it never returns before its loop is over
C27_StatementCountNeverCutShort ==
    [][ (calls # None /\ calls.fn = StatementCount /\ Walking /\ Top.pc = "entry")
            => (Len(calls'.frames) = Len(calls.frames)) ]_vars

\* on the shallow bodies the walks return what the functions compute
C27_WalksReturnCounts ==
    (calls # None /\ calls.returned # None /\ calls.deepest <= MaxShallow + 2) =>
        LET body == program[calls.function].statements
        IN  calls.returned[1] = IF calls.fn = CountBranches
                                THEN count_branches(body)
                                ELSE statement_count(body)

\* a deep body walked to the end by the branch count
C27_DeepBranchCountDone ==
    /\ calls # None
    /\ calls.fn = CountBranches
    /\ calls.deepest = DepthCap + 2
    /\ calls.returned = Some(DepthCap + 1)

(***************************************************************************)
(* Inputs of rule 4 with Case statements: a body of one or two items, each *)
(* an assignment at top level, in a Case arm, in a Case else-branch, or in *)
(* a Case under an If.                                                     *)
(***************************************************************************)
MaxCaseItems == 2

CaseDivExprs ==
    { B_over_C,
      Div(B_over_C, VariableRef("D")),
      BinaryOp("Add", VariableRef("B"), VariableRef("C")) }

CaseOf(arm_body, else_body, line) ==
    CaseStmt(VariableRef("Step"),
             << CaseArm(<<NumberLiteral(1)>>, <<SetA(line + 1)>>),
                CaseArm(<<NumberLiteral(2)>>, arm_body) >>,
             else_body, line)

\* the item starting at line with the assignment Y := e three lines below
CaseItems(line) ==
    UNION { LET y == Assign("Y", e, line + 3)
            IN  { y,
                  CaseOf(<<y>>, <<>>, line),
                  CaseOf(<<>>, <<y>>, line),
                  IfStmt(NonZeroGuard, <<CaseOf(<<y>>, <<>>, line + 1)>>, <<>>, line),
                  IfStmt(VariableRef("Run"), <<CaseOf(<<>>, <<y>>, line + 1)>>, <<>>, line),
                  IfStmt(VariableRef("Run"), <<y>>, <<>>, line) }
          : e \in CaseDivExprs }

CaseBodies ==
    UNION { { <<a>> : a \in CaseItems(FirstLine) },
            IF MaxCaseItems < 2 THEN {}
            ELSE { <<a, b>> : a \in CaseItems(FirstLine), b \in CaseItems(FirstLine + 5) } }

CasePrograms == { << Function("FC1", "FC", body, FirstLine) >> : body \in CaseBodies }

InitCaseDiv ==
    /\ program \in CasePrograms
    /\ policy = DefaultPolicy
    /\ COMMENT_INDEX = None
    /\ results = NothingRun
    /\ observed = NothingRun
    /\ OthersIdle

NextCaseDiv == RunRule4

SpecCaseDiv == InitCaseDiv /\ [][NextCaseDiv]_vars

\* the bodies of the arms of a Case, in order
RECURSIVE ArmStatements(_, _)
ArmStatements(cases, i) ==
    IF i > Len(cases) THEN <<>> ELSE cases[i].body \o ArmStatements(cases, i + 1)

\* the body with every Case replaced by what it holds (lifted = TRUE: the
\* statements of its arms and of its else-branch, in order; lifted = FALSE:
\* nothing)
RECURSIVE WithoutCase(_, _)
WithoutCase(stmts, lifted) ==
    IF Len(stmts) = 0 THEN <<>>
    ELSE LET st == Head(stmts)
             here == CASE st.k = "CaseStmt" ->
                            IF lifted
                            THEN WithoutCase(ArmStatements(st.cases, 1) \o st.else_branch,
                                             lifted)
                            ELSE <<>>
                       [] st.k = "IfStmt" ->
                            << IfStmt(st.condition,
                                      WithoutCase(st.then_branch, lifted),
                                      WithoutCase(st.else_branch, lifted), st.line) >>
                       [] OTHER -> <<st>>
         IN  here \o WithoutCase(Tail(stmts), lifted)

CaseLifted(prog, lifted) ==
    [f \in 1..Len(prog) |->
        [prog[f] EXCEPT !.statements = WithoutCase(@, lifted)]]

\* a division sits in an assignment inside a Case
RECURSIVE DivisionInCase(_, _)
DivisionInCase(stmts, in_case) ==
    \E i \in 1..Len(stmts) :
        LET st == stmts[i]
        IN  CASE st.k = "Assign" ->
                   in_case /\ find_divs(st.value, st.line, FALSE, <<>>) # <<>>
              [] st.k = "IfStmt" ->
                   \/ DivisionInCase(st.then_branch, in_case)
                   \/ DivisionInCase(st.else_branch, in_case)
              [] st.k = "CaseStmt" ->
                   \/ DivisionInCase(ArmStatements(st.cases, 1), TRUE)
                   \/ DivisionInCase(st.else_branch, TRUE)
              [] OTHER -> FALSE

\* C30: rule 4 reports a division in an assignment inside a Case arm or a
\* Case else-branch exactly as it reports the same assignment outside the
\* Case: the result is the result for the body with the statements of every
\* Case lifted out of it.
C30_CaseBodiesAnalysed ==
    Ran(4) => results[4][1] = rule4_check(CaseLifted(program, TRUE))

\* what rule 4 does: the result is the result for the body without its Cases
C30_CaseBodiesSkipped ==
    Ran(4) => results[4][1] = rule4_check(CaseLifted(program, FALSE))

\* rule 4 has run on an unguarded division inside a Case and reported nothing
C30_DivisionInCaseUnreported ==
    /\ Ran(4)
    /\ DivisionInCase(program[1].statements, FALSE)
    /\ Len(program[1].statements) = 1
    /\ program[1].statements[1].k = "CaseStmt"
    /\ results[4][1].violations = <<>>

(***************************************************************************)
(* rules/rule9.rs : validate indirections.  The rule matches               *)
(* Expression::Identifier, which ast.rs names VariableRef; the target of   *)
(* an Assign is a Variable (ast.rs) and holds no sub-expression.           *)
(***************************************************************************)
UNSAFE_FUNCTIONS == <<"STRCPY", "MEMCPY", "S_MOVE">>

\* matches!(op, Lt | Le | Gt | Ge | Eq | Neq)
is_comparison(op) == op \in {"Lt", "Le", "Gt", "Ge", "Eq", "Neq"}

eq_ignore_ascii_case(a, b) == to_ascii_uppercase(a) = to_ascii_uppercase(b)

\* Vec::pop left out: the guard pushed for the then-branch stays
pop_skipped(guards) == guards

\* Vec::pop
pop(guards) == SubSeq(guards, 1, Len(guards) - 1)

RECURSIVE is_var_constrained9(_, _)
is_var_constrained9(var_name, g) ==
    CASE g.k = "BinaryOp" ->
            \/ /\ is_comparison(g.op)
               /\ \/ /\ eq_ignore_ascii_case(str_trim(expr_text(g.left)), str_trim(var_name))
                     /\ g.right.k = "NumberLiteral"
                  \/ /\ eq_ignore_ascii_case(str_trim(expr_text(g.right)), str_trim(var_name))
                     /\ g.left.k = "NumberLiteral"
            \/ is_var_constrained9(var_name, g.left)
            \/ is_var_constrained9(var_name, g.right)
      [] g.k = "UnaryOp" -> is_var_constrained9(var_name, g.expr)
      [] OTHER -> FALSE

RECURSIVE find_violations_in_expr(_, _, _, _)
RECURSIVE FindViolationsEach(_, _, _, _)
FindViolationsEach(exprs, line, guards, out) ==
    IF Len(exprs) = 0 THEN out
    ELSE FindViolationsEach(Tail(exprs), line, guards,
                            find_violations_in_expr(Head(exprs), line, guards, out))

find_violations_in_expr(e, line, guards, out) ==
    CASE e.k = "Index" ->
            LET is_guarded == \E i \in 1..Len(guards) :
                                  is_var_constrained9(e.index.name, guards[i])
                o == IF e.index.k = "VariableRef" /\ ~is_guarded
                     THEN Append(out,
                            Violation(9, "Validate indirections", line,
                                "Array indexed by variable '" \o e.index.name
                                    \o "' without bounds check",
                                "Validate index against array bounds before access (e.g., IF index < LIMIT THEN...)."))
                     ELSE out
            IN  FindViolationsEach(<<e.base, e.index>>, line, guards, o)
      [] e.k = "BinaryOp" -> FindViolationsEach(<<e.left, e.right>>, line, guards, out)
      [] e.k = "FuncCall" -> FindViolationsEach(e.args, line, guards, out)
      [] OTHER -> out

RECURSIVE walk_statements9(_, _, _)
walk_statements9(stmts, guards, out) ==
    IF Len(stmts) = 0 THEN out
    ELSE LET st == Head(stmts)
             o == CASE st.k = "IfStmt" ->
                        LET pushed == Append(guards, st.condition)
                        IN  walk_statements9(st.else_branch, pop(pushed),
                                walk_statements9(st.then_branch, pushed, out))
                    [] st.k = "Assign" ->
                        find_violations_in_expr(st.value, st.line, guards, out)
                    [] st.k = "Expr" ->
                        find_violations_in_expr(st.expr, st.line, guards, out)
                    [] st.k = "Call" ->
                        IF \E i \in 1..Len(UNSAFE_FUNCTIONS) :
                               Contains(to_ascii_uppercase(st.name), UNSAFE_FUNCTIONS[i])
                        THEN Append(out,
                                Violation(9, "Validate indirections", st.line,
                                    "Call to potentially unsafe function '" \o st.name \o "'",
                                    "Ensure destination buffer size is checked before calling memory copy functions."))
                        ELSE out
                    [] OTHER -> out
         IN  walk_statements9(Tail(stmts), guards, o)

RECURSIVE Rule9Functions(_, _)
Rule9Functions(functions, violations) ==
    IF Len(functions) = 0 THEN violations
    ELSE Rule9Functions(Tail(functions),
            walk_statements9(Head(functions).statements, <<>>, violations))

rule9_check(prog) == RuleResult_violations(Rule9Functions(prog, <<>>))

(***************************************************************************)
(* rules/rule11_12.rs : plausibility checks, Mode::Presence (rule 11) and  *)
(* Mode::Enforcement (rule 12)                                             *)
(***************************************************************************)
expr_has_sensitive_source(e) == \E v \in collect_vars(e) : is_sensitive_variable(v)

is_sensitive_sink(target) ==
    LET t == to_ascii_uppercase(target)
    IN  \/ Contains(t, "MOTOR") \/ Contains(t, "SPEED") \/ Contains(t, "SETPOINT")
        \/ Contains(t, "POSITION") \/ Contains(t, "CMD") \/ Contains(t, "COMMAND")
        \/ Contains(t, "OUTPUT")

RECURSIVE is_var_constrained11(_, _)
is_var_constrained11(var_name, g) ==
    CASE g.k = "BinaryOp" ->
            \/ /\ is_comparison(g.op)
               /\ \/ /\ to_ascii_uppercase(expr_text(g.left)) = var_name
                     /\ g.right.k = "NumberLiteral"
                  \/ /\ to_ascii_uppercase(expr_text(g.right)) = var_name
                     /\ g.left.k = "NumberLiteral"
            \/ is_var_constrained11(var_name, g.left)
            \/ is_var_constrained11(var_name, g.right)
      [] g.k = "UnaryOp" -> is_var_constrained11(var_name, g.expr)
      [] OTHER -> FALSE

is_guarded_by_range(value_vars, guards) ==
    \E var \in value_vars : \E i \in 1..Len(guards) : is_var_constrained11(var, guards[i])

guard_enforces_flag(guards) ==
    \E i \in 1..Len(guards) :
        /\ guards[i].k = "VariableRef"
        /\ LET up == to_ascii_uppercase(guards[i].name)
           IN  EndsWith(up, "OK") \/ EndsWith(up, "VALID") \/ Contains(up, "AUTHORIZED")

\* the Assign arm of walk_statements
Rule11Assign(st, guards, out, mode) ==
    IF expr_has_sensitive_source(st.value) /\ is_sensitive_sink(st.target)
    THEN LET has_nearby_annotation == has_plausibility_annotation_above(st.line, 3)
             has_guard_validation == is_guarded_by_range(collect_vars(st.value), guards)
         IN  IF mode = "Presence"
             THEN IF ~(has_nearby_annotation \/ has_guard_validation)
                  THEN Append(out,
                         Violation(11, "Plausibility Checks", st.line,
                             "Use of sensitive value '" \o expr_text(st.value)
                                 \o "' without plausibility validation",
                             "Add a nearby @PlausibilityCheck or guard with range/authorization before this use."))
                  ELSE out
             ELSE IF /\ has_nearby_annotation
                     /\ ~has_guard_validation
                     /\ ~(\/ guard_enforces_flag(guards)
                          \/ has_plausibility_annotation_above(st.line, 1))
                  THEN Append(out,
                         Violation(12, "Plausibility Checks", st.line,
                             "Plausibility annotation present but not enforced before assigning to '"
                                 \o st.target \o "'",
                             "Use the plausibility result to gate this action (e.g., IF setpointOK THEN ...)."))
                  ELSE out
    ELSE out

RECURSIVE walk_statements11(_, _, _, _)
RECURSIVE WalkArms11(_, _, _, _, _)
\* for (_, body) in cases { walk_statements(body, guards, out, mode); }
WalkArms11(cases, i, guards, out, mode) ==
    IF i > Len(cases) THEN out
    ELSE WalkArms11(cases, i + 1, guards,
                    walk_statements11(cases[i].body, guards, out, mode), mode)

walk_statements11(stmts, guards, out, mode) ==
    IF Len(stmts) = 0 THEN out
    ELSE LET st == Head(stmts)
             o == CASE st.k = "Assign" -> Rule11Assign(st, guards, out, mode)
                    [] st.k = "IfStmt" ->
                        LET pushed == Append(guards, st.condition)
                        IN  walk_statements11(st.else_branch, pop(pushed),
                                walk_statements11(st.then_branch, pushed, out, mode),
                                mode)
                    [] st.k = "CaseStmt" ->
                        walk_statements11(st.else_branch, guards,
                            WalkArms11(st.cases, 1, guards, out, mode), mode)
                    [] OTHER -> out
         IN  walk_statements11(Tail(stmts), guards, o, mode)

RECURSIVE Rule11Functions(_, _, _)
Rule11Functions(functions, out, mode) ==
    IF Len(functions) = 0 THEN out
    ELSE Rule11Functions(Tail(functions),
            walk_statements11(Head(functions).statements, <<>>, out, mode), mode)

check_impl(prog, mode) ==
    LET out == Rule11Functions(prog, <<>>, mode)
    IN  IF out = <<>>
        THEN IF mode = "Presence" THEN RuleResult_ok(11, "Plausibility Checks")
             ELSE RuleResult_ok(12, "Plausibility Checks")
        ELSE RuleResult_violations(out)

check_rule11(prog) == check_impl(prog, "Presence")
check_rule12(prog) == check_impl(prog, "Enforcement")

RunRule9 ==
    /\ results[9] = None
    /\ results' = [results EXCEPT ![9] = Some(rule9_check(program))]
    /\ UNCHANGED <<program, policy, COMMENT_INDEX, observed, others>>

RunRule11 ==
    /\ results[11] = None
    /\ results' = [results EXCEPT ![11] = Some(check_rule11(program))]
    /\ UNCHANGED <<program, policy, COMMENT_INDEX, observed, others>>

RunRule12 ==
    /\ results[12] = None
    /\ results' = [results EXCEPT ![12] = Some(check_rule12(program))]
    /\ UNCHANGED <<program, policy, COMMENT_INDEX, observed, others>>

(***************************************************************************)
(* Inputs of is_var_constrained (rules 9 and 11/12): one If whose          *)
(* then-branch holds an indexed read or an assignment of a sensitive value *)
(* to a sink; the condition is built around one comparison.                *)
(***************************************************************************)
MaxLiteral == 10
ConstraintLine == FirstLine + 1

ComparedNames == {"I", "i", "J", "HMI_Speed", "hmi_speed"}

\* comparisons of a variable with a literal or with another variable
Comparisons(name) ==
    LET v == VariableRef(name)
        n == NumberLiteral(MaxLiteral)
    IN  { BinaryOp(op, v, n) : op \in {"Lt", "Le", "Gt", "Ge", "Eq", "Neq"} }
        \cup { BinaryOp("Gt", n, v), BinaryOp("Neq", n, v),
               BinaryOp("Lt", v, VariableRef("Limit")),
               BinaryOp("Gt", VariableRef("Limit"), v),
               BinaryOp("Add", v, n),
               BinaryOp("Lt", Index(VariableRef("A"), v), n) }

\* a comparison as the condition, and inside other terms
ConditionsAround(c) ==
    { c,
      BinaryOp("And", c, VariableRef("Run")),
      BinaryOp("Or", VariableRef("Run"), c),
      BinaryOp("And", VariableRef("Run"), BinaryOp("Or", c, VariableRef("Stop"))),
      UnaryNot(c),
      BinaryOp("And", UnaryNot(c), VariableRef("Run")),
      BinaryOp("Eq", c, BoolLiteral(FALSE)),
      BinaryOp("Neq", VariableRef("Run"), c),
      FuncCall("CHECK", <<c>>, FirstLine) }

ConstraintConds ==
    {VariableRef("Run")}
        \cup UNION { ConditionsAround(c) : c \in UNION { Comparisons(name) : name \in ComparedNames } }

ConstraintAtoms ==
    { Assign("Y", Index(VariableRef("A"), VariableRef("I")), ConstraintLine),
      Assign("Y", Index(VariableRef("A"), VariableRef("i")), ConstraintLine),
      Assign("Motor_Speed", VariableRef("HMI_Speed"), ConstraintLine) }

ConstraintPrograms ==
    { << Function("FC1", "FC", << IfStmt(g, <<a>>, <<>>, FirstLine) >>, FirstLine) >> :
        g \in ConstraintConds, a \in ConstraintAtoms }

InitConstraint ==
    /\ program \in ConstraintPrograms
    /\ policy = DefaultPolicy
    /\ COMMENT_INDEX = None
    /\ results = NothingRun
    /\ observed = NothingRun
    /\ OthersIdle

NextConstraint == RunRule9 \/ RunRule11

SpecConstraint == InitConstraint /\ [][NextConstraint]_vars

\* the guard itself, or a sub-term reached through AND/OR only, compares the
\* variable (whatever the case of its letters) with a numeric literal
RECURSIVE ComparedWithLiteral(_, _)
ComparedWithLiteral(name, g) ==
    /\ g.k = "BinaryOp"
    /\ \/ /\ is_comparison(g.op)
          /\ \/ /\ g.left.k = "VariableRef"
                /\ eq_ignore_ascii_case(g.left.name, name)
                /\ g.right.k = "NumberLiteral"
             \/ /\ g.right.k = "VariableRef"
                /\ eq_ignore_ascii_case(g.right.name, name)
                /\ g.left.k = "NumberLiteral"
       \/ /\ g.op \in {"And", "Or"}
          /\ \/ ComparedWithLiteral(name, g.left)
             \/ ComparedWithLiteral(name, g.right)

\* the same with the descent of the code: through every binary operator and
\* through NOT
RECURSIVE ComparedAnywhere(_, _)
ComparedAnywhere(name, g) ==
    \/ /\ g.k = "BinaryOp"
       /\ \/ /\ is_comparison(g.op)
             /\ \/ /\ g.left.k = "VariableRef"
                   /\ eq_ignore_ascii_case(g.left.name, name)
                   /\ g.right.k = "NumberLiteral"
                \/ /\ g.right.k = "VariableRef"
                   /\ eq_ignore_ascii_case(g.right.name, name)
                   /\ g.left.k = "NumberLiteral"
          \/ ComparedAnywhere(name, g.left)
          \/ ComparedAnywhere(name, g.right)
    \/ /\ g.k = "UnaryOp"
       /\ ComparedAnywhere(name, g.expr)

TheIf == program[1].statements[1]
TheAtom == TheIf.then_branch[1]
IndexedRead == TheAtom.value.k = "Index"

\* the variable is_var_constrained is asked about: the index of the read
\* (rule 9), the one variable of the value (rule 11)
AskedName == IF IndexedRead THEN TheAtom.value.index.name ELSE TheAtom.value.name

\* is_var_constrained answered true: the rule of the atom reported nothing
AnsweredConstrained(r) == ViolationsAt(r, ConstraintLine) = {}

\* C25: is_var_constrained (rules 9 and 11/12) is true for a variable and a
\* guard exactly when the guard, or a sub-term reached through AND/OR only,
\* compares the variable (case-insensitively) with a numeric literal, in
\* either order.
C25_ConstrainedIffComparedWithLiteral ==
    /\ (Ran(9) /\ IndexedRead) =>
           (AnsweredConstrained(9) <=> ComparedWithLiteral(AskedName, TheIf.condition))
    /\ (Ran(11) /\ ~IndexedRead) =>
           (AnsweredConstrained(11) <=> ComparedWithLiteral(AskedName, TheIf.condition))

\* what the two functions compute: the comparison is also found under NOT
\* and under any other binary operator
C25_ConstrainedIffComparedAnywhere ==
    /\ (Ran(9) /\ IndexedRead) =>
           (AnsweredConstrained(9) <=> ComparedAnywhere(AskedName, TheIf.condition))
    /\ (Ran(11) /\ ~IndexedRead) =>
           (AnsweredConstrained(11) <=> ComparedAnywhere(AskedName, TheIf.condition))

\* a negated bound check taken for a constraint by both rules
C25_NegatedCheckAccepted ==
    /\ Ran(9) /\ Ran(11)
    /\ TheIf.condition.k = "UnaryOp"
    /\ ComparedAnywhere(AskedName, TheIf.condition)
    /\ results[9][1].violations = <<>>
    /\ results[11][1].violations = <<>>

(***************************************************************************)
(* Inputs of rules 4, 6, 9, 11 and 12 for the guard context of an If: one  *)
(* statement of interest on SiteLine, placed in the then-branch, in the    *)
(* else-branch or after an If, at top level or inside the then-branch of   *)
(* an outer If.                                                            *)
(***************************************************************************)
OuterIfLine == FirstLine
InnerIfLine == FirstLine + 1
FillerLine == FirstLine + 2
SiteLine == FirstLine + 4

\* one statement per rule: an unguarded division, a timer preset from a
\* source, an indexed read, a sensitive value into a sink
ContextAtoms ==
    { Assign("Y", B_over_C, SiteLine),
      Assign("T_Preset", VariableRef("HMI_Speed"), SiteLine),
      Assign("Y", Index(VariableRef("A"), VariableRef("I")), SiteLine),
      Assign("Motor_Speed", VariableRef("HMI_Speed"), SiteLine) }

ContextConds ==
    { NonZeroGuard,
      BinaryOp("Lt", VariableRef("HMI_Speed"), NumberLiteral(MaxLiteral)),
      BinaryOp("Lt", VariableRef("I"), NumberLiteral(MaxLiteral)),
      VariableRef("SetpointOK"),
      VariableRef("Run") }

\* the places of the statement a around an If with condition g
ContextPlaces(g, a) ==
    LET filler == SetA(FillerLine)
    IN  { << IfStmt(g, <<a>>, <<>>, InnerIfLine) >>,
          << IfStmt(g, <<a>>, <<filler>>, InnerIfLine) >>,
          << IfStmt(g, <<filler>>, <<a>>, InnerIfLine) >>,
          << IfStmt(g, <<>>, <<a>>, InnerIfLine) >>,
          << IfStmt(g, <<filler>>, <<>>, InnerIfLine), a >> }

ContextBodies ==
    { <<a>> : a \in ContextAtoms }
      \cup UNION { ContextPlaces(g, a) : g \in ContextConds, a \in ContextAtoms }
      \cup UNION { { << IfStmt(outer, inner, <<>>, OuterIfLine) >> :
                       inner \in ContextPlaces(g, a) }
                   : outer \in ContextConds, g \in ContextConds, a \in ContextAtoms }

ContextPrograms == { << Function("FC1", "FC", body, FirstLine) >> : body \in ContextBodies }

\* no comment index, or one with an annotation two lines above the statement
ContextIndexes == { None, Some(<< <<SiteLine - 2, "// @PlausibilityCheck">> >>) }

InitContext ==
    /\ program \in ContextPrograms
    /\ policy = DefaultPolicy
    /\ COMMENT_INDEX \in ContextIndexes
    /\ results = NothingRun
    /\ observed = NothingRun
    /\ OthersIdle

NextContext == RunRule4 \/ RunRule6 \/ RunRule9 \/ RunRule11 \/ RunRule12

SpecContext == InitContext /\ [][NextContext]_vars

ContextRules == {4, 6, 9, 11, 12}

ContextCheck(r, prog) ==
    CASE r = 4  -> rule4_check(prog)
      [] r = 6  -> rule6_check(prog)
      [] r = 9  -> rule9_check(prog)
      [] r = 11 -> check_rule11(prog)
      [] r = 12 -> check_rule12(prog)

\* a statement on the line lies somewhere in stmts
RECURSIVE HoldsLine(_, _)
HoldsLine(stmts, line) ==
    \E i \in 1..Len(stmts) :
        \/ stmts[i].k # "IfStmt" /\ stmts[i].line = line
        \/ /\ stmts[i].k = "IfStmt"
           /\ HoldsLine(stmts[i].then_branch, line) \/ HoldsLine(stmts[i].else_branch, line)

\* the statement on the line under the Ifs in whose then-branch it lies, and
\* those only: an If that holds it in its else-branch, or that precedes it,
\* is dropped
RECURSIVE UnderThenGuards(_, _)
UnderThenGuards(stmts, line) ==
    LET i  == CHOOSE j \in 1..Len(stmts) : HoldsLine(<<stmts[j]>>, line)
        st == stmts[i]
    IN  IF st.k # "IfStmt" THEN <<st>>
        ELSE IF HoldsLine(st.then_branch, line)
        THEN << IfStmt(st.condition, UnderThenGuards(st.then_branch, line), <<>>, st.line) >>
        ELSE UnderThenGuards(st.else_branch, line)

ThenGuardedOnly(prog, line) ==
    [f \in 1..Len(prog) |->
        [prog[f] EXCEPT !.statements = UnderThenGuards(@, line)]]

ReportedAt(result, line) ==
    {i \in 1..Len(result.violations) : result.violations[i].line = line}

\* C24: the condition of an If guards its then-branch only.  In rules 4, 6,
\* 9, 11 and 12 a statement is reported exactly as it is when it stands
\* under the Ifs that hold it in their then-branch and under nothing else:
\* the else-branch and the statements after an If see the guards that were
\* active before the If.
C24_IfGuardsOnlyThenBranch ==
    \A r \in ContextRules :
        Ran(r) =>
            Cardinality(ViolationsAt(r, SiteLine))
              = Cardinality(ReportedAt(ContextCheck(r, ThenGuardedOnly(program, SiteLine)),
                                       SiteLine))

\* an indexed read in the else-branch of its own bound check inside a
\* guarded then-branch: reported by rule 9, while the same read in the
\* then-branch is not
C24_Witness ==
    /\ Ran(9) /\ Ran(11) /\ Ran(4) /\ Ran(6) /\ Ran(12)
    /\ Len(program[1].statements) = 1
    /\ program[1].statements[1].k = "IfStmt"
    /\ program[1].statements[1].condition = VariableRef("Run")
    /\ program[1].statements[1].then_branch[1].k = "IfStmt"
    /\ is_var_constrained9("I", program[1].statements[1].then_branch[1].condition)
    /\ HoldsLine(program[1].statements[1].then_branch[1].else_branch, SiteLine)
    /\ ViolationsAt(9, SiteLine) # {}

(***************************************************************************)
(* parser/il.rs : parse_il_from_str, step by step.  A frame is one call of *)
(* parse_statements_from_il: its arguments start and end, its locals i,    *)
(* current_result and stmts, and, while it waits for the nested call of a  *)
(* JMPC / JMPNC, what it will do with the branch (wait).  Line indices     *)
(* count from 0 as in the code; lines[i] of the code is lines[i + 1] here. *)
(***************************************************************************)
\* s.split_whitespace()
RECURSIVE SplitWhitespace(_, _, _)
SplitWhitespace(s, word, parts) ==
    IF Len(s) = 0 THEN (IF word = "" THEN parts ELSE Append(parts, word))
    ELSE IF IsJsonBlank(CharAt(s, 1))
    THEN SplitWhitespace(SubSeq(s, 2, Len(s)), "",
                         IF word = "" THEN parts ELSE Append(parts, word))
    ELSE SplitWhitespace(SubSeq(s, 2, Len(s)), word \o CharAt(s, 1), parts)

\* s.trim_end_matches(':')
RECURSIVE trim_end_colons(_)
trim_end_colons(s) ==
    IF Len(s) > 0 /\ CharAt(s, Len(s)) = ":" THEN trim_end_colons(SubSeq(s, 1, Len(s) - 1))
    ELSE s

\* the HashMap as the function from the labels to the index of the last
\* line that defines each
find_labels(lines) ==
    LET defining == {i \in 0..(Len(lines) - 1) : EndsWith(str_trim(lines[i + 1]), ":")}
        label(i) == trim_end_colons(str_trim(lines[i + 1]))
    IN  [l \in {label(i) : i \in defining} |->
            CHOOSE i \in defining :
                label(i) = l /\ \A j \in defining : label(j) = l => j <= i]

\* labels.get(label).unwrap_or(default)
LabelOr(labels, label, default) ==
    IF label \in DOMAIN labels THEN labels[label] ELSE default

IsUnsigned(op) ==
    Len(op) > 0 /\ \A j \in 1..Len(op) : \E d \in 1..Len(Digits) : CharAt(op, j) = CharAt(Digits, d)

\* the operands met here carry no sign
parse_operand(op) ==
    IF IsUnsigned(op) THEN NumberLiteral(DigitsValue(op))
    ELSE IF eq_ignore_ascii_case(op, "TRUE") THEN BoolLiteral(TRUE)
    ELSE IF eq_ignore_ascii_case(op, "FALSE") THEN BoolLiteral(FALSE)
    ELSE VariableRef(op)

get_binop(s) ==
    CASE s = "ADD" -> Some("Add") [] s = "SUB" -> Some("Sub")
      [] s = "MUL" -> Some("Mul") [] s = "DIV" -> Some("Div")
      [] s \in {"AND", "ANDN"} -> Some("And")
      [] s \in {"OR", "ORN"} -> Some("Or")
      [] s = "EQ" -> Some("Eq") [] s = "GE" -> Some("Ge") [] s = "GT" -> Some("Gt")
      [] s = "LE" -> Some("Le") [] s = "LT" -> Some("Lt")
      [] OTHER -> None

ILFrame(start, end) ==
    [start |-> start, end |-> end, i |-> start, current_result |-> None,
     stmts |-> <<>>, wait |-> None]

\* what an iteration reads from a line: the trimmed line, whether it is
\* skipped, the instruction, the operand and parse_operand of the operand.
\* These depend on the line alone and are worked out once for each line.
ILLine(raw) ==
    LET line == str_trim(raw)
        parts == SplitWhitespace(line, "", <<>>)
    IN  IF line = "" \/ StartsWith(line, "//") \/ EndsWith(line, ":")
        THEN [skipped |-> TRUE, instruction |-> "", operand_str |-> None,
              operand |-> None]
        ELSE [skipped |-> FALSE,
              instruction |-> to_ascii_uppercase(parts[1]),
              operand_str |-> IF Len(parts) >= 2 THEN Some(parts[2]) ELSE None,
              operand |-> IF Len(parts) >= 2 THEN Some(parse_operand(parts[2]))
                          ELSE None]

\* one iteration of `while i < end` in the frame top: the frame at the end
\* of the iteration, or the frame waiting for the nested call (call = the
\* arguments start, end of that call)
Iterate(top, decoded, labels) ==
    LET i == top.i
        line_no == i + 1
        instruction == decoded[i + 1].instruction
        operand_str == decoded[i + 1].operand_str
        operand == decoded[i + 1].operand
        taken == [top EXCEPT !.current_result = None]
        next(frame) == [frame |-> [frame EXCEPT !.i = @ + 1], call |-> None]
    IN  IF decoded[i + 1].skipped THEN next(top)
        ELSE IF instruction \in {"LD", "LDN"}
        THEN IF operand_str = None THEN next(top)
             ELSE next([top EXCEPT !.current_result =
                          Some(IF instruction = "LDN" THEN UnaryNot(operand[1])
                               ELSE operand[1])])
        ELSE IF instruction = "ST"
        THEN IF operand_str # None /\ top.current_result # None
             THEN next([taken EXCEPT !.stmts =
                          Append(@, Assign(operand_str[1], top.current_result[1], line_no))])
             ELSE next(taken)
        ELSE IF instruction \in {"JMPC", "JMPNC"}
        THEN IF operand_str # None /\ top.current_result # None
             THEN LET target_line == LabelOr(labels, operand_str[1], top.end)
                  IN  [frame |-> [taken EXCEPT !.wait =
                                    Some([instruction |-> instruction,
                                          condition |-> top.current_result[1],
                                          next_i |-> IF instruction = "JMPC"
                                                     THEN target_line ELSE i + 1,
                                          line_no |-> line_no])],
                       call |-> Some(<<i + 1, target_line>>)]
             ELSE next(taken)
        ELSE IF instruction = "JMP"
        THEN IF operand_str # None
             THEN next([top EXCEPT !.i = LabelOr(labels, operand_str[1], i)])
             ELSE next(top)
        ELSE IF operand_str # None /\ top.current_result # None
             THEN next([top EXCEPT !.current_result =
                          IF get_binop(instruction) # None
                          THEN Some(BinaryOp(get_binop(instruction)[1],
                                             top.current_result[1], operand[1]))
                          ELSE top.current_result])
             ELSE next(taken)

ILParsing == calls # None /\ calls.fn = "parse_statements_from_il" /\ calls.frames # <<>>
ILTop == calls.frames[Len(calls.frames)]

MaxILLines == 3

\* What a parse holds in memory: the frames of its calls, the statements
\* they have pushed and the expressions in current_result.  The code goes on
\* for as long as there is memory; here a parse is followed while it holds
\* less than ILMemoryCap, which no parse of at most MaxILLines lines that
\* ends comes near.
RECURSIVE ExprSize(_)
ExprSize(e) ==
    CASE e.k = "BinaryOp" -> 1 + ExprSize(e.left) + ExprSize(e.right)
      [] e.k = "UnaryOp" -> 1 + ExprSize(e.expr)
      [] OTHER -> 1

RECURSIVE ILMemory(_)
ILMemory(frames) ==
    IF Len(frames) = 0 THEN 0
    ELSE 1 + Len(frames[1].stmts)
         + (IF frames[1].current_result = None THEN 0
            ELSE ExprSize(frames[1].current_result[1]))
         + ILMemory(Tail(frames))

ILMemoryCap == 4 * (MaxILLines + 1)
ILWithinCap == ILMemory(calls.frames) < ILMemoryCap

\* steps tells an iteration that leaves every local as it was from no
\* iteration at all: it flips with each step of the parser
Flip(steps) == 1 - steps

\* the iteration of the call on top of the stack
ILIteration == Iterate(ILTop, calls.decoded, calls.labels)

\* an iteration without a nested call
StepLine ==
    /\ ILParsing /\ ILWithinCap
    /\ ILTop.i < ILTop.end
    /\ ILIteration.call = None
    /\ calls' = [calls EXCEPT !.frames[Len(calls.frames)] = ILIteration.frame,
                              !.steps = Flip(@)]
    /\ UNCHANGED WalkFrame

\* JMPC / JMPNC with a label and a condition: the nested call on the lines
\* between the jump and its target
CallBranch ==
    /\ ILParsing /\ ILWithinCap
    /\ ILTop.i < ILTop.end
    /\ ILIteration.call # None
    /\ calls' = [calls EXCEPT !.frames =
                    Append(SubSeq(@, 1, Len(@) - 1) \o <<ILIteration.frame>>,
                           ILFrame(ILIteration.call[1][1], ILIteration.call[1][2])),
                    !.steps = Flip(@)]
    /\ UNCHANGED WalkFrame

\* `while i < end` is over: Ok(stmts) goes to the caller, which pushes the
\* IfStmt and moves to next_i, or to parse_il_from_str, which wraps the
\* statements into the Program
ReturnStatements ==
    /\ ILParsing /\ ILWithinCap
    /\ ILTop.i >= ILTop.end
    /\ LET n == Len(calls.frames)
       IN  IF n = 1
           THEN calls' = [calls EXCEPT
                            !.frames = <<>>,
                            !.steps = Flip(@),
                            !.returned = Some(Ok(<< Function("IL_Program", "Program",
                                                             ILTop.stmts, 1) >>))]
           ELSE LET caller == calls.frames[n - 1]
                    w == caller.wait[1]
                    if == IF w.instruction = "JMPC"
                          THEN IfStmt(w.condition, ILTop.stmts, <<>>, w.line_no)
                          ELSE IfStmt(w.condition, <<>>, ILTop.stmts, w.line_no)
                IN  calls' = [calls EXCEPT !.frames =
                                Append(SubSeq(@, 1, n - 2),
                                       [caller EXCEPT !.stmts = Append(@, if),
                                                      !.i = w.next_i,
                                                      !.wait = None]),
                              !.steps = Flip(@)]
    /\ UNCHANGED WalkFrame

\* parse_il_from_str(src) up to the call of parse_statements_from_il
parse_il_from_str(lines) ==
    [fn |-> "parse_statements_from_il", lines |-> lines,
     decoded |-> [i \in 1..Len(lines) |-> ILLine(lines[i])],
     labels |-> find_labels(lines),
     frames |-> << ILFrame(0, Len(lines)) >>, steps |-> 0, returned |-> None]

(***************************************************************************)
(* Inputs of the IL parser: the texts of at most MaxILLines lines          *)
(***************************************************************************)
ILLines == {"L1:", "LD A", "ST B", "ADD 1", "JMP L1", "JMPC L1", "JMPNC L1", "jmp L2"}

ILTexts == UNION { [1..n -> ILLines] : n \in 0..MaxILLines }

InitIL ==
    /\ program = <<>>
    /\ policy = DefaultPolicy
    /\ COMMENT_INDEX = None
    /\ GUARD_MAP = None
    /\ installs = <<>>
    /\ query = None
    /\ rerun = NothingRun
    /\ source = None
    /\ output = None
    /\ calls \in { parse_il_from_str(lines) : lines \in ILTexts }
    /\ results = NothingRun
    /\ observed = NothingRun

NextIL == StepLine \/ CallBranch \/ ReturnStatements

\* the parser runs on: a step that can be taken is taken
SpecIL == InitIL /\ [][NextIL]_vars /\ WF_vars(NextIL)

ILReturned == calls.returned # None

\* a JMP, JMPC or JMPNC names a label defined at or before its own line
BackwardJump(lines) ==
    \E i \in 0..(Len(lines) - 1) :
        LET parts == SplitWhitespace(str_trim(lines[i + 1]), "", <<>>)
        IN  /\ Len(parts) >= 2
            /\ to_ascii_uppercase(parts[1]) \in {"JMP", "JMPC", "JMPNC"}
            /\ parts[2] \in DOMAIN find_labels(lines)
            /\ find_labels(lines)[parts[2]] <= i

\* C28: parse_il_from_str terminates and returns a Program for every finite
\* text, backward jumps included.
C28_ParseTerminates == <>ILReturned

\* without a backward jump the parser returns
C28_ForwardTextsTerminate == BackwardJump(calls.lines) \/ <>ILReturned

\* a parse is followed to its end unless the text holds a backward jump
C28_CapOnlyOnBackwardJump ==
    (ILParsing /\ ~ILWithinCap) => BackwardJump(calls.lines)

\* a backward JMPC taken over and over: more statements than lines
C28_MoreStatementsThanLines ==
    /\ ILParsing
    /\ calls.lines = <<"L1:", "LD A", "JMPC L1">>
    /\ Len(ILTop.stmts) > Len(calls.lines)

(***************************************************************************)
(* parser/scl.rs : parse_scl_from_str.  Line numbers count from 1 as the   *)
(* code's line_no does after its increment; lines[line_no] of the code,    *)
(* read before the increment, is lines[line_no + 1] here.                  *)
(***************************************************************************)
\* s.find(t): the byte offset of the first occurrence, counted from 0
Find(s, t) ==
    LET at == {i \in 1..(Len(s) - Len(t) + 1) : SubSeq(s, i, i + Len(t) - 1) = t}
    IN  IF at = {} THEN None
        ELSE Some((CHOOSE i \in at : \A j \in at : i <= j) - 1)

\* s.rfind(t)
RFind(s, t) ==
    LET at == {i \in 1..(Len(s) - Len(t) + 1) : SubSeq(s, i, i + Len(t) - 1) = t}
    IN  IF at = {} THEN None
        ELSE Some((CHOOSE i \in at : \A j \in at : i >= j) - 1)

\* split_once: s.splitn(2, pat), both parts or nothing
split_once(s, pat) ==
    LET at == Find(s, pat)
    IN  IF at = None THEN None
        ELSE Some(<<SubSeq(s, 1, at[1]), SubSeq(s, at[1] + Len(pat) + 1, Len(s))>>)

\* s.split(sep) for a separator of one character
RECURSIVE SplitAt(_, _)
SplitAt(s, sep) ==
    LET at == Find(s, sep)
    IN  IF at = None THEN <<s>>
        ELSE <<SubSeq(s, 1, at[1])>> \o SplitAt(SubSeq(s, at[1] + 2, Len(s)), sep)

\* s.trim_start()
RECURSIVE str_trim_start(_)
str_trim_start(s) ==
    IF Len(s) > 0 /\ IsJsonBlank(CharAt(s, 1)) THEN str_trim_start(SubSeq(s, 2, Len(s)))
    ELSE s

\* s.trim_end_matches(t)
RECURSIVE trim_end_matches(_, _)
trim_end_matches(s, t) ==
    IF EndsWith(s, t) THEN trim_end_matches(SubSeq(s, 1, Len(s) - Len(t)), t)
    ELSE s

\* s.trim_matches(c) for a character c
RECURSIVE trim_matches(_, _)
trim_matches(s, c) ==
    IF StartsWith(s, c) THEN trim_matches(SubSeq(s, 2, Len(s)), c)
    ELSE trim_end_matches(s, c)

starts_with_keyword(s, kw) ==
    StartsWith(to_ascii_uppercase(str_trim_start(s)), to_ascii_uppercase(kw))

grab_second_token(s) ==
    LET toks == SplitWhitespace(s, "", <<>>)
    IN  IF Len(toks) >= 2 THEN Some(trim_matches(toks[2], ":")) ELSE None

strip_inline_comment(line) ==
    LET i == Find(line, "//")
        s == IF i = None THEN line ELSE SubSeq(line, 1, i[1])
        a == Find(s, "(*")
        b == Find(s, "*)")
    IN  IF a # None /\ b # None /\ a[1] < b[1] /\ b[1] + 2 <= Len(s)
        THEN SubSeq(s, 1, a[1]) \o SubSeq(s, b[1] + 3, Len(s))
        ELSE s

looks_like_call(line) ==
    LET t == str_trim(strip_inline_comment(line))
    IN  Contains(t, "(") /\ EndsWith(t, ");")

\* Tok: Ident(s), Number(n), True, False, LParen, RParen, Comma, Op(s)
Tok(t, s, n) == [t |-> t, s |-> s, n |-> n]

\* s.chars().take_while(pred).count() for the digits / for the characters
\* of an identifier (ASCII texts)
RECURSIVE CountDigits(_)
CountDigits(s) ==
    IF Len(s) > 0 /\ IsAsciiDigit(CharAt(s, 1)) THEN 1 + CountDigits(SubSeq(s, 2, Len(s)))
    ELSE 0

IsIdentChar(c) == IsAsciiAlphabetic(c) \/ IsAsciiDigit(c) \/ c = "_" \/ c = "."

RECURSIVE CountIdent(_)
CountIdent(s) ==
    IF Len(s) > 0 /\ IsIdentChar(CharAt(s, 1)) THEN 1 + CountIdent(SubSeq(s, 2, Len(s)))
    ELSE 0

RECURSIVE tokenize(_, _)
tokenize(text, out) ==
    LET s == str_trim_start(text)
        c == CharAt(s, 1)
        rest(n) == SubSeq(s, n + 1, Len(s))
    IN  IF Len(s) = 0 THEN out
        ELSE IF IsAsciiDigit(c)
        THEN LET len == CountDigits(s)
             IN  tokenize(rest(len), Append(out, Tok("Number", "", DigitsValue(SubSeq(s, 1, len)))))
        ELSE IF c = "(" THEN tokenize(rest(1), Append(out, Tok("LParen", "", 0)))
        ELSE IF c = ")" THEN tokenize(rest(1), Append(out, Tok("RParen", "", 0)))
        ELSE IF StartsWith(s, "<>") \/ StartsWith(s, "<=") \/ StartsWith(s, ">=")
        THEN tokenize(rest(2), Append(out, Tok("Op", SubSeq(s, 1, 2), 0)))
        ELSE IF Contains("+-*/=<>()", c)
        THEN tokenize(rest(1), Append(out, Tok("Op", c, 0)))
        ELSE IF c = "," THEN tokenize(rest(1), Append(out, Tok("Comma", "", 0)))
        ELSE LET len == CountIdent(s)
                 ident == SubSeq(s, 1, len)
                 up == to_ascii_uppercase(ident)
             IN  IF len > 0
                 THEN tokenize(rest(len), Append(out,
                        CASE up = "TRUE" -> Tok("True", "", 0)
                          [] up = "FALSE" -> Tok("False", "", 0)
                          [] up \in {"AND", "OR", "NOT"} -> Tok("Op", ident, 0)
                          [] OTHER -> Tok("Ident", ident, 0)))
                 ELSE tokenize(rest(1), out)

\* precedence and right-associativity of an operator
prec(op) ==
    LET up == to_ascii_uppercase(op)
    IN  CASE up = "NOT" -> <<5, TRUE>>
          [] up \in {"*", "/"} -> <<4, FALSE>>
          [] up \in {"+", "-"} -> <<3, FALSE>>
          [] up \in {"=", "<>", "<", "<=", ">", ">="} -> <<2, FALSE>>
          [] up = "AND" -> <<1, FALSE>>
          [] OTHER -> <<0, FALSE>>

bin_of(op) ==
    LET up == to_ascii_uppercase(op)
    IN  CASE up = "+" -> Some("Add") [] up = "-" -> Some("Sub")
          [] up = "*" -> Some("Mul") [] up = "/" -> Some("Div")
          [] up = "=" -> Some("Eq")  [] up = "<>" -> Some("Neq")
          [] up = "<" -> Some("Lt")  [] up = "<=" -> Some("Le")
          [] up = ">" -> Some("Gt")  [] up = ">=" -> Some("Ge")
          [] up = "AND" -> Some("And") [] up = "OR" -> Some("Or")
          [] OTHER -> None

\* toks.get(i) is the token of kind t (i counts from 0)
TokIs(toks, i, t) == i < Len(toks) /\ toks[i + 1].t = t

\* parse_primary and parse_bp return the expression and the position i they
\* leave behind
Parsed(e, i) == [e |-> e, i |-> i]

RECURSIVE parse_primary(_, _, _, _)
RECURSIVE parse_bp(_, _, _, _, _)
RECURSIVE ParseArgs(_, _, _, _, _)
RECURSIVE ParseInfix(_, _, _, _, _, _)

\* the argument loop of a function call, entered with toks[i] not `)`
ParseArgs(toks, i, line, original_text, args) ==
    LET arg == parse_bp(toks, i, 0, line, original_text)
        more == Append(args, arg.e)
    IN  IF TokIs(toks, arg.i, "RParen") THEN Parsed(more, arg.i)
        ELSE IF TokIs(toks, arg.i, "Comma")
        THEN ParseArgs(toks, arg.i + 1, line, original_text, more)
        ELSE Parsed(more, arg.i)

parse_primary(toks, i, line, original_text) ==
    IF i >= Len(toks) THEN Parsed(VariableRef(str_trim(original_text)), i)
    ELSE LET tok == toks[i + 1]
         IN  CASE tok.t = "Number" -> Parsed(NumberLiteral(tok.n), i + 1)
               [] tok.t = "True" -> Parsed(BoolLiteral(TRUE), i + 1)
               [] tok.t = "False" -> Parsed(BoolLiteral(FALSE), i + 1)
               [] tok.t = "Ident" ->
                    IF TokIs(toks, i + 1, "LParen")
                    THEN LET args == IF TokIs(toks, i + 2, "RParen")
                                     THEN Parsed(<<>>, i + 2)
                                     ELSE ParseArgs(toks, i + 2, line, original_text, <<>>)
                         IN  Parsed(FuncCall(tok.s, args.e, line),
                                    IF TokIs(toks, args.i, "RParen") THEN args.i + 1
                                    ELSE args.i)
                    ELSE Parsed(VariableRef(tok.s), i + 1)
               [] tok.t = "LParen" ->
                    LET inner == parse_bp(toks, i + 1, 0, line, original_text)
                    IN  Parsed(inner.e, IF TokIs(toks, inner.i, "RParen") THEN inner.i + 1
                                        ELSE inner.i)
               [] OTHER -> Parsed(VariableRef(str_trim(original_text)), i)

\* the loop of parse_bp over the operators that follow lhs
ParseInfix(toks, i, min_bp, line, original_text, lhs) ==
    IF ~TokIs(toks, i, "Op") THEN Parsed(lhs, i)
    ELSE LET op == toks[i + 1].s
             lbp == prec(op)[1]
             rbp == IF prec(op)[2] THEN lbp ELSE lbp + 1
         IN  IF op = ")" \/ lbp < min_bp THEN Parsed(lhs, i)
             ELSE LET rhs == parse_bp(toks, i + 1, rbp, line, original_text)
                  IN  IF bin_of(op) # None
                      THEN ParseInfix(toks, rhs.i, min_bp, line, original_text,
                                      BinaryOp(bin_of(op)[1], lhs, rhs.e))
                      ELSE Parsed(lhs, rhs.i)

parse_bp(toks, i, min_bp, line, original_text) ==
    LET lhs == IF TokIs(toks, i, "Op") /\ to_ascii_uppercase(toks[i + 1].s) = "NOT"
               THEN LET rhs == parse_bp(toks, i + 1, prec("NOT")[1], line, original_text)
                    IN  Parsed(UnaryNot(rhs.e), rhs.i)
               ELSE parse_primary(toks, i, line, original_text)
    IN  ParseInfix(toks, lhs.i, min_bp, line, original_text, lhs.e)

parse_expr(text, line) == parse_bp(tokenize(text, <<>>), 0, 0, line, text).e

ElseMarker(line) == [k |-> "ElseMarker", line |-> line]

extract_index_expr(line, line_no) ==
    LET txt == str_trim(line)
        lb == Find(txt, "[")
        rb_rel == IF lb = None THEN None ELSE Find(SubSeq(txt, lb[1] + 1, Len(txt)), "]")
    IN  IF lb # None /\ rb_rel # None
        THEN Some(Index(VariableRef(str_trim(SubSeq(txt, 1, lb[1]))),
                        parse_expr(str_trim(SubSeq(txt, lb[1] + 2, lb[1] + rb_rel[1])),
                                   line_no)))
        ELSE None

\* the loop of parse_call_args over cleaned_args.split(',')
RECURSIVE CallArgsOf(_, _, _)
CallArgsOf(parts, line_no, args) ==
    IF Len(parts) = 0 THEN args
    ELSE LET pair == split_once(parts[1], ":=")
         IN  CallArgsOf(Tail(parts), line_no,
                        IF pair = None THEN args
                        ELSE Append(args, <<str_trim(pair[1][1]),
                                            parse_expr(str_trim(pair[1][2]), line_no)>>))

parse_call_args(args_str, line_no) ==
    LET trimmed == str_trim(args_str)
        rp == RFind(trimmed, ")")
        to_rp == IF rp = None THEN trimmed ELSE SubSeq(trimmed, 1, rp[1])
        lp == Find(to_rp, "(")
        cleaned == IF lp = None THEN to_rp ELSE SubSeq(to_rp, lp[1] + 2, Len(to_rp))
    IN  CallArgsOf(SplitAt(trim_end_matches(cleaned, ";"), ","), line_no, <<>>)

\* the kind of a block from its first line and its name
KindOf(line, name) ==
    IF starts_with_keyword(line, "FUNCTION_BLOCK") THEN "FB"
    ELSE IF starts_with_keyword(line, "FUNCTION") THEN "FC"
    ELSE IF starts_with_keyword(line, "PROGRAM") THEN "Program"
    ELSE LET up == to_ascii_uppercase(name)
             num == IF StartsWith(up, "OB") THEN SubSeq(up, 3, Len(up)) ELSE ""
             digits == IF StartsWith(num, "+") THEN SubSeq(num, 2, Len(num)) ELSE num
             ob_num == IF Len(digits) > 0 /\ CountDigits(digits) = Len(digits)
                       THEN Some(DigitsValue(digits)) ELSE None
         IN  CASE ob_num = Some(121) -> "OB121"
               [] ob_num = Some(100) -> "OB100"
               [] ob_num = Some(86) -> "OB86"
               [] ob_num = Some(82) -> "OB82"
               [] ob_num = Some(1) -> "OB1"
               [] OTHER -> "OB"

\* the locals of parse_scl_from_str: program.functions, current_func,
\* if_stack (the last element is the top) and line_no
SclLocals(functions, current_func, if_stack, line_no) ==
    [functions |-> functions, current_func |-> current_func,
     if_stack |-> if_stack, line_no |-> line_no]

push_stmt(current_func, stmt) ==
    IF current_func # None
    THEN Some([current_func[1] EXCEPT !.statements = Append(@, stmt)])
    ELSE current_func

\* while let Some(mut body) = if_stack.pop() { f.statements.append(&mut body) }
RECURSIVE DrainIfStack(_, _)
DrainIfStack(statements, if_stack) ==
    IF Len(if_stack) = 0 THEN statements
    ELSE DrainIfStack(statements \o if_stack[Len(if_stack)],
                      SubSeq(if_stack, 1, Len(if_stack) - 1))

\* if let Some(mut f) = current_func.take() { ...; program.functions.push(f) }
TakeFunction(l) ==
    IF l.current_func # None
    THEN [l EXCEPT !.functions =
                       Append(@, [l.current_func[1] EXCEPT !.statements =
                                      DrainIfStack(@, l.if_stack)]),
                   !.current_func = None,
                   !.if_stack = <<>>]
    ELSE l

\* the IF branch's loop that gathers the condition: chunk is the IF line
\* throughout (the `let chunk` of the loop body declares another variable),
\* last is what that inner variable held when the loop ended
RECURSIVE GatherCondition(_, _, _, _)
GatherCondition(lines, line_no, chunk, cond_text) ==
    IF ~Contains(to_ascii_uppercase(chunk), "THEN") /\ line_no < Len(lines)
    THEN LET inner == str_trim(strip_inline_comment(lines[line_no + 1]))
             text == cond_text \o " " \o chunk
         IN  IF inner = "" THEN [line_no |-> line_no + 1, cond_text |-> text]
             ELSE GatherCondition(lines, line_no + 1, chunk, text)
    ELSE [line_no |-> line_no, cond_text |-> cond_text]

\* the loop of the END_IF branch over body.into_iter().skip(1)
RECURSIVE SplitBranches(_, _, _, _, _)
SplitBranches(body, i, in_else, then_branch, else_branch) ==
    IF i > Len(body) THEN <<then_branch, else_branch>>
    ELSE IF body[i].k = "ElseMarker"
    THEN SplitBranches(body, i + 1, TRUE, then_branch, else_branch)
    ELSE IF in_else
    THEN SplitBranches(body, i + 1, in_else, then_branch, Append(else_branch, body[i]))
    ELSE SplitBranches(body, i + 1, in_else, Append(then_branch, body[i]), else_branch)

\* labels_str.split(',').map(|s| parse_expr(s.trim(), line_no))
RECURSIVE LabelsOf(_, _)
LabelsOf(parts, line_no) ==
    IF Len(parts) = 0 THEN <<>>
    ELSE <<parse_expr(str_trim(parts[1]), line_no)>> \o LabelsOf(Tail(parts), line_no)

\* last_case.1.append(&mut current_statements), when there is a last case
AppendToLastCase(all_cases, current_statements) ==
    IF Len(all_cases) = 0 THEN all_cases
    ELSE [all_cases EXCEPT ![Len(all_cases)].body = @ \o current_statements]

\* the loop of the CASE branch over the lines that follow the CASE line, up
\* to END_CASE or the end of the text: the CaseStmt it pushes and line_no
RECURSIVE CaseBody(_, _, _, _, _, _, _)
CaseBody(lines, line_no, case_expr, all_cases, else_branch, current_statements, in_else_block) ==
    IF line_no >= Len(lines)
    THEN [stmt |-> CaseStmt(case_expr, all_cases, else_branch, line_no),
          line_no |-> line_no]
    ELSE LET body_line == str_trim(strip_inline_comment(lines[line_no + 1]))
             no == line_no + 1
         IN  IF starts_with_keyword(body_line, "END_CASE")
             THEN [stmt |-> CaseStmt(case_expr,
                                     IF Len(current_statements) > 0 /\ ~in_else_block
                                     THEN AppendToLastCase(all_cases, current_statements)
                                     ELSE all_cases,
                                     IF Len(current_statements) > 0 /\ in_else_block
                                     THEN else_branch \o current_statements
                                     ELSE else_branch,
                                     no),
                   line_no |-> no]
             ELSE IF starts_with_keyword(body_line, "ELSE")
             THEN CaseBody(lines, no, case_expr,
                           AppendToLastCase(all_cases, current_statements), else_branch,
                           IF Len(all_cases) = 0 THEN current_statements ELSE <<>>, TRUE)
             ELSE IF Contains(body_line, ":")
             THEN CaseBody(lines, no, case_expr,
                           Append(AppendToLastCase(all_cases, current_statements),
                                  CaseArm(LabelsOf(SplitAt(split_once(body_line, ":")[1][1],
                                                           ","), no),
                                          <<>>)),
                           else_branch,
                           IF Len(all_cases) = 0 THEN current_statements ELSE <<>>,
                           in_else_block)
             ELSE IF body_line # "" /\ looks_like_call(body_line)
             THEN LET call == split_once(body_line, "(")[1]
                  IN  CaseBody(lines, no, case_expr, all_cases, else_branch,
                               Append(current_statements,
                                      Call(str_trim(call[1]),
                                           parse_call_args(call[2], no), no)),
                               in_else_block)
             ELSE CaseBody(lines, no, case_expr, all_cases, else_branch,
                           current_statements, in_else_block)

\* one iteration of `while line_no < lines.len()`: the locals after the
\* line at line_no (and the lines the IF and CASE branches read on) is dealt
\* with
ParseLine(lines, l) ==
    LET raw == lines[l.line_no + 1]
        line_no == l.line_no + 1
        read == [l EXCEPT !.line_no = line_no]
        whole == str_trim(raw)
        line == str_trim(strip_inline_comment(raw))
        up == to_ascii_uppercase(line)
        pushed(stmt) == [read EXCEPT !.current_func = push_stmt(@, stmt)]
    IN  IF whole = "" THEN read
        ELSE IF StartsWith(whole, "(*") /\ EndsWith(whole, "*)")
        THEN pushed(Comment(whole, line_no))
        ELSE IF \/ starts_with_keyword(line, "FUNCTION_BLOCK")
                \/ starts_with_keyword(line, "FUNCTION")
                \/ starts_with_keyword(line, "ORGANIZATION_BLOCK")
                \/ starts_with_keyword(line, "PROGRAM")
        THEN LET name == IF grab_second_token(line) = None THEN "Unnamed"
                         ELSE grab_second_token(line)[1]
             IN  [TakeFunction(read) EXCEPT !.current_func =
                      Some(Function(name, KindOf(line, name), <<>>, line_no))]
        ELSE IF \/ starts_with_keyword(line, "END_FUNCTION_BLOCK")
                \/ starts_with_keyword(line, "END_FUNCTION")
                \/ starts_with_keyword(line, "END_ORGANIZATION_BLOCK")
                \/ starts_with_keyword(line, "END_PROGRAM")
        THEN TakeFunction(read)
        ELSE IF \/ starts_with_keyword(line, "IF ")
                \/ StartsWith(up, "IF(") \/ StartsWith(up, "IF (")
        THEN LET gathered == GatherCondition(lines, line_no, line, "")
                 ti == Find(up, "THEN")
                 cond_text == IF ti # None
                              THEN gathered.cond_text \o " " \o SubSeq(line, 1, ti[1])
                              ELSE gathered.cond_text
             IN  [read EXCEPT !.line_no = gathered.line_no,
                              !.if_stack =
                                  Append(@, << IfStmt(parse_expr(str_trim(cond_text),
                                                                 gathered.line_no),
                                                      <<>>, <<>>, gathered.line_no) >>)]
        ELSE IF StartsWith(up, "ELSE")
        THEN IF Len(read.if_stack) > 0
             THEN [read EXCEPT !.if_stack[Len(read.if_stack)] =
                                   Append(@, ElseMarker(line_no))]
             ELSE read
        ELSE IF StartsWith(up, "END_IF")
        THEN IF Len(read.if_stack) > 0
             THEN LET body == read.if_stack[Len(read.if_stack)]
                      popped == [read EXCEPT !.if_stack = SubSeq(@, 1, Len(@) - 1)]
                      branches == SplitBranches(body, 2, FALSE, <<>>, <<>>)
                  IN  IF Len(body) > 0 /\ body[1].k = "IfStmt"
                      THEN [popped EXCEPT !.current_func =
                                push_stmt(@, IfStmt(body[1].condition, branches[1],
                                                    branches[2], body[1].line))]
                      ELSE popped
             ELSE read
        ELSE IF starts_with_keyword(line, "CASE ")
        THEN LET case_expr_text ==
                     str_trim(trim_end_matches(str_trim(SubSeq(line, 5, Len(line))), "OF"))
                 case == CaseBody(lines, line_no, parse_expr(case_expr_text, line_no),
                                  <<>>, <<>>, <<>>, FALSE)
             IN  [read EXCEPT !.line_no = case.line_no,
                              !.current_func = push_stmt(@, case.stmt)]
        ELSE IF Contains(line, ":=") /\ EndsWith(line, ";")
        THEN LET sides == split_once(line, ":=")[1]
                 lhs == trim_end_matches(str_trim(sides[1]), ";")
                 rhs == trim_end_matches(str_trim(sides[2]), ";")
             IN  pushed(Assign(lhs, parse_expr(rhs, line_no), line_no))
        ELSE IF looks_like_call(line)
        THEN LET call == split_once(line, "(")[1]
             IN  pushed(Call(str_trim(call[1]), parse_call_args(call[2], line_no),
                             line_no))
        ELSE IF extract_index_expr(line, line_no) # None
        THEN pushed(ExprStmt(extract_index_expr(line, line_no)[1], line_no))
        ELSE read

RECURSIVE ParseLines(_, _)
ParseLines(lines, l) ==
    IF l.line_no < Len(lines) THEN ParseLines(lines, ParseLine(lines, l))
    ELSE l

\* parse_scl_from_str on the text whose lines are `lines` (src.lines())
parse_scl_from_str(lines) ==
    Ok(TakeFunction(ParseLines(lines, SclLocals(<<>>, None, <<>>, 0))).functions)

\* parse_scl_from_str is called on the text and returns
ParseSclFromStr ==
    /\ source # None
    /\ output = None
    /\ output' = Some(parse_scl_from_str(source[1].lines))
    /\ UNCHANGED <<program, policy, COMMENT_INDEX, GUARD_MAP, installs, query, rerun,
                   source, calls, results, observed>>

(***************************************************************************)
(* Inputs of the SCL parser: one FUNCTION whose body has at most           *)
(* MaxSclLines lines, each an IF ... THEN, an ELSE, an END_IF or an        *)
(* assignment, in any order                                                *)
(***************************************************************************)
MaxSclLines == 5

SclHeader == "FUNCTION F1"
SclLines == {"IF A > 0 THEN", "ELSE", "END_IF;", "X := 1;", "  Y := B;"}

SclTexts ==
    { <<SclHeader>> \o body \o <<"END_FUNCTION">> :
        body \in UNION { [1..n -> SclLines] : n \in 0..MaxSclLines } }

InitSCL ==
    /\ program = <<>>
    /\ policy = DefaultPolicy
    /\ COMMENT_INDEX = None
    /\ GUARD_MAP = None
    /\ installs = <<>>
    /\ query = None
    /\ rerun = NothingRun
    /\ source \in { Some([lines |-> lines]) : lines \in SclTexts }
    /\ output = None
    /\ calls = None
    /\ results = NothingRun
    /\ observed = NothingRun

NextSCL == ParseSclFromStr

SpecSCL == InitSCL /\ [][NextSCL]_vars

SclParsed == output # None

\* the statements of the one function of the parsed text
SclStatements == output[1].value[1].statements

\* what the lines of a text are: an IF ... THEN, an ELSE, an END_IF, or a
\* statement of its own
LineKind(raw) ==
    LET up == to_ascii_uppercase(str_trim(raw))
    IN  IF StartsWith(up, "IF ") THEN "IF"
        ELSE IF StartsWith(up, "ELSE") THEN "ELSE"
        ELSE IF StartsWith(up, "END_IF") THEN "END_IF"
        ELSE "statement"

\* the statement the parser makes of a line that stands alone in a function
LoneStatement(raw, line_no) ==
    LET l == ParseLine([i \in 1..line_no |-> raw],
                       SclLocals(<<>>, Some(Function("F1", "FC", <<>>, 1)), <<>>,
                                 line_no - 1))
    IN  l.current_func[1].statements[1]

\* The structure the text has when read as nested IF ... THEN / ELSE /
\* END_IF: the statements of lines[i..] up to the ELSE or END_IF that closes
\* the block (at = the index of that line, or past the end), ok = every IF
\* met has its END_IF.  The condition and the line of an IfStmt are those
\* the parser gives it.
RECURSIVE BlockFrom(_, _, _)
BlockFrom(lines, i, stmts) ==
    IF i > Len(lines) \/ LineKind(lines[i]) \in {"ELSE", "END_IF"}
    THEN [stmts |-> stmts, at |-> i, ok |-> TRUE]
    ELSE IF LineKind(lines[i]) = "statement"
    THEN BlockFrom(lines, i + 1, Append(stmts, LoneStatement(lines[i], i)))
    ELSE LET then_block == BlockFrom(lines, i + 1, <<>>)
             has_else == then_block.at <= Len(lines)
                         /\ LineKind(lines[then_block.at]) = "ELSE"
             else_block == IF has_else THEN BlockFrom(lines, then_block.at + 1, <<>>)
                           ELSE [stmts |-> <<>>, at |-> then_block.at, ok |-> TRUE]
             placeholder == ParseLine(lines, SclLocals(<<>>, None, <<>>, i - 1)).if_stack[1][1]
         IN  IF /\ then_block.ok /\ else_block.ok
                /\ else_block.at <= Len(lines)
                /\ LineKind(lines[else_block.at]) = "END_IF"
             THEN BlockFrom(lines, else_block.at + 1,
                            Append(stmts, IfStmt(placeholder.condition, then_block.stmts,
                                                 else_block.stmts, placeholder.line)))
             ELSE [stmts |-> stmts, at |-> i, ok |-> FALSE]

\* the body of the function of a text: the lines between its first and last
BodyLines == SubSeq(source[1].lines, 1, Len(source[1].lines) - 1)

Structure == BlockFrom(BodyLines, 2, <<>>)

\* every IF of the text has its END_IF, and no ELSE or END_IF stands alone
WellNested == Structure.ok /\ Structure.at > Len(BodyLines)

\* the statements of stmts and of the branches of its IfStmts, at any depth
RECURSIVE Inside(_)
Inside(stmts) ==
    IF Len(stmts) = 0 THEN {}
    ELSE {stmts[1]} \cup Inside(Tail(stmts))
         \cup (IF stmts[1].k = "IfStmt"
               THEN Inside(stmts[1].then_branch) \cup Inside(stmts[1].else_branch)
               ELSE {})

\* C29: parse_scl_from_str places the statements between IF ... THEN and the
\* matching ELSE or END_IF in the then_branch of the IfStmt and those between
\* ELSE and END_IF in its else_branch, in order, none of them at the top
\* level of the function, and a nested IF inside the branch it stands in.
C29_BranchesHoldTheirStatements ==
    (SclParsed /\ WellNested) => SclStatements = Structure.stmts

\* what the parser does: every statement of the text is pushed to the top
\* level of the function, and every IfStmt has two empty branches
C29_BranchesAreEmpty ==
    SclParsed =>
        \A i \in 1..Len(SclStatements) :
            SclStatements[i].k = "IfStmt" =>
                SclStatements[i].then_branch = <<>> /\ SclStatements[i].else_branch = <<>>

\* every statement of a well-nested text, whatever IF it stands in, is at
\* the top level of the parsed function
C29_StatementsAtTopLevel ==
    (SclParsed /\ WellNested) =>
        \A st \in Inside(Structure.stmts) :
            st.k # "IfStmt" => \E i \in 1..Len(SclStatements) : SclStatements[i] = st

\* IF A > 0 THEN / X := 1; / ELSE / Y := B; / END_IF; is parsed to the two
\* assignments followed by an IfStmt with empty branches
C29_BranchStatementsLifted ==
    /\ SclParsed
    /\ WellNested
    /\ BodyLines = <<SclHeader, "IF A > 0 THEN", "X := 1;", "ELSE", "  Y := B;", "END_IF;">>
    /\ Len(SclStatements) = 3
    /\ SclStatements[1] = Assign("X", NumberLiteral(1), 3)
    /\ SclStatements[2] = Assign("Y", VariableRef("B"), 5)
    /\ SclStatements[3].k = "IfStmt"
    /\ SclStatements[3].then_branch = <<>>
    /\ SclStatements[3].else_branch = <<>>

====
